---- MODULE Spec2Model ----
(***************************************************************************)
(* Session lifecycle and knowledge bridge of the Valence OpenClaw plugin.  *)
(*                                                                         *)
(* The repository holds three variants of the session hooks:               *)
(*   "mcp"  - plugin/index.ts: sessionMap + mcpCall (JSON-RPC over HTTP)   *)
(*   "cli"  - plugin/session-hooks.ts: module-level currentSessionId +     *)
(*            valenceExec (subprocess)                                     *)
(*   "rest" - plugin/inference.ts (second half): ctx keys + restCall       *)
(* The variant is fixed at start-up (variable backend).                    *)
(***************************************************************************)
EXTENDS Integers, Sequences, FiniteSets, TLC

\* ------------------------------------------------------------------ bounds
MaxSessions == 2      \* remote sessions the substrate hands out in one run
MaxPending  == 2      \* handlers suspended at an await at the same time

\* ------------------------------------------------------- program constants
McpTimeout     == 30000    \* AbortSignal.timeout(30_000) in mcpCall
DefaultTimeout == 30000    \* options?.timeout ?? 30000 in valenceExec
CompileTimeout == 120000   \* { timeout: 120000 } of the compile call
HealthTimeout  == 5000     \* { timeout: 5000 } / AbortSignal.timeout(5_000)

\* ------------------------------------------------------------- value sets
Keys     == {"A", "B"}            \* host session keys (ctx.sessionId, ctx.channelId, ...)
NoKey    == "none"                \* undefined key
Backends == {"mcp", "cli", "rest"}
Children == {"A-sub"}              \* event.childSessionKey / event.targetSessionKey
Contents == {"text", "empty", "bad"}   \* event.content: usable, falsy, unserialisable
Providers == {"none", "slack"}    \* ctx.messageProvider: undefined or a name

\* A remote session id: its serial number and, as a tag, the host key whose
\* session_start asked the substrate to create it.
RemoteId(n, k) == [n |-> n, for |-> k]
NoId == RemoteId(0, NoKey)        \* undefined remote session id

VARIABLES
  backend,            \* which variant of the hooks is registered
  autoCompileOnFlush, \* cfg.autoCompileOnFlush
  sessionMap,         \* index.ts:45  Map<string,string>, in insertion order
  nextId,             \* serial number of the next session the substrate creates
  hist,               \* per key: session_start / session_end history
  currentSessionId,   \* session-hooks.ts:14
  currentChannel,     \* session-hooks.ts:15
  pending,            \* handlers suspended at an await (their continuations)
  obs                 \* what the step just taken did (event, remote call, completion)

VARIABLES
  autoRecall,          \* cfg.autoRecall
  memoryMdAbsPath,     \* index.ts:49  TRUE: resolved path, FALSE: null
  file,                \* the file at memoryMdAbsPath
  turn,                \* before_agent_start handlers in flight, per session
  sync,                \* the syncMemoryMd call in flight
  clock,               \* number of snapshots rendered (the `now` of generateMemoryMd)
  robs                 \* what the recall step just taken did

VARIABLES
  xcall                \* the transport call under way

VARIABLES
  cap,                 \* the agent_end capture handler under way
  probe,               \* a text given to shouldCapture, and what it answered
  runs,                \* syncMemoryMd runs under way next to each other
  render               \* a snapshot rendered from what the list calls returned

VARIABLES
  rpc,                 \* README.md:265  requestId, and the mcpCall calls in flight
  host,                \* the command, service or tool the host is running
  archive,             \* the belief_archive tool call under way
  http                 \* the /valence/inference requests and their handler

captureVars == <<cap, probe>>
renderVars == <<render, runs>>
clientVars == <<rpc, host, archive, http>>

cfgVars == <<backend, autoCompileOnFlush>>
mcpVars == <<sessionMap, nextId, hist>>
cliVars == <<currentSessionId, currentChannel>>
hookVars == <<cfgVars, mcpVars, cliVars, pending, obs>>

recallVars == <<autoRecall, memoryMdAbsPath, file, turn, sync, clock, robs>>

vars == <<hookVars, recallVars, xcall, captureVars, renderVars, clientVars>>

\* --------------------------------------------------- Map<string,string> ops
MapHas(m, k) == \E i \in 1..Len(m) : m[i].key = k

MapGet(m, k) ==
  IF MapHas(m, k) THEN m[CHOOSE i \in 1..Len(m) : m[i].key = k].id ELSE NoId

MapSetAppending(m, k, v) == Append(m, [key |-> k, id |-> v])

\* Map.prototype.set: an existing key keeps its position, a new key goes last
MapSet(m, k, v) ==
  IF MapHas(m, k)
    THEN [i \in 1..Len(m) |-> IF m[i].key = k THEN [key |-> k, id |-> v] ELSE m[i]]
    ELSE Append(m, [key |-> k, id |-> v])

\* a delete that keeps no entry at all
KeepEntryOfNone(e, k) == FALSE
\* Map.prototype.delete removes the entry of k and no other
KeepEntry(e, k) == e.key # k

MapDelete(m, k) == SelectSeq(m, LAMBDA e : KeepEntry(e, k))

MapClear(m) == << >>

\* index.ts:2015  findValenceSession
findValenceSession(m, key) ==
  IF key = NoKey THEN NoId
  ELSE IF MapHas(m, key) THEN MapGet(m, key)
  ELSE IF Len(m) > 0 THEN m[1].id      \* for (const [, valenceId] of sessionMap) return valenceId
  ELSE NoId

\* a || b on keys
OrKey(a, b) == IF a # NoKey THEN a ELSE b

\* the same without looking at the option
ExecTimeoutAlwaysDefault(opt) == DefaultTimeout

\* client.ts:37, 80  timeout: options?.timeout ?? 30000   (0: no option given)
ExecTimeout(opt) == IF opt = 0 THEN DefaultTimeout ELSE opt

\* ------------------------------------------------------ handler bookkeeping
McpHooks  == {"session_start", "session_end", "message"}
CliHooks  == {"before_agent_start", "session_start", "message_received", "llm_output",
              "before_compaction", "session_end", "subagent_spawned", "subagent_ended"}
RestHooks == CliHooks \ {"before_agent_start"}

GuardedAwaitsButMcpSessionEnd ==
  (({"mcp"} \X McpHooks) \ {<<"mcp", "session_end">>})
    \cup ({"cli"} \X CliHooks) \cup ({"rest"} \X RestHooks)

\* The handlers whose statements that can throw (the awaited remote call,
\* the serialisation of the payload) sit inside a try block whose catch only
\* logs a warning.
\*   index.ts:1785-1801, 1808-1817, 1829-1838, 1846-1855
\*   session-hooks.ts:29-36, 41-54, 59-76, 81-100, 105-121, 126-134, 139-156, 161-168
\*   inference.ts:176-187, 192-204, 209-228, 233-242, 247-255, 260-277, 282-289
GuardedAwaits ==
  ({"mcp"} \X McpHooks) \cup ({"cli"} \X CliHooks) \cup ({"rest"} \X RestHooks)

TryCovers(b, hook) == <<b, hook>> \in GuardedAwaits

\* what the host sees when a step of the handler throws
Outcome(b, hook, threw) == IF threw /\ ~TryCovers(b, hook) THEN "rejected" ELSE "ok"

\* log.warn is reached exactly from the catch block
Warned(b, hook, threw) == threw /\ TryCovers(b, hook)

NoHist == [starts |-> 0, ended |-> FALSE]

\* CLI and REST keep no map: the remote session of a key carries the key as
\* its id.  starts = 1 from the delivery of the event that creates the
\* session of k to the delivery of the event that finalizes it.
MarkStarted(k) == IF k \in Keys THEN [hist EXCEPT ![k].starts = 1] ELSE hist
MarkEnded(k) == IF k \in Keys THEN [hist EXCEPT ![k].starts = 0] ELSE hist

NoObs == [hook |-> "none", step |-> "none", key |-> NoKey, mapped |-> FALSE, op |-> "none",
          sid |-> NoId, target |-> NoKey, parent |-> NoKey, timeout |-> 0,
          stale |-> FALSE, result |-> "none", threw |-> FALSE, outcome |-> "ok",
          warned |-> FALSE]

\* The step delivered event `hook` for `key` and the handler ran up to its
\* first await, where it issued remote call `op` against `sid`.
Issued(hook, key, mapped, op, sid, stale) ==
  [NoObs EXCEPT !.hook = hook, !.step = "deliver", !.key = key, !.mapped = mapped, !.op = op,
                !.sid = sid, !.timeout = McpTimeout, !.stale = stale, !.outcome = "pending"]

\* The same for the CLI and REST hooks, whose calls name the session by the
\* host key (`target`), may carry a parent session and a timeout.
IssuedFor(hook, step, key, op, target, parent, timeout) ==
  [NoObs EXCEPT !.hook = hook, !.step = step, !.key = key, !.op = op, !.target = target,
                !.parent = parent, !.timeout = timeout, !.outcome = "pending"]

\* The step delivered event `hook` for a key that was mapped or not, and the
\* handler completed without a remote call.
Skipped(hook, mapped, threw) ==
  [NoObs EXCEPT !.hook = hook, !.step = "deliver", !.mapped = mapped, !.threw = threw,
                !.outcome = Outcome(backend, hook, threw),
                !.warned = Warned(backend, hook, threw)]

\* The step resumed the continuation of `hook` for `key` with the result of
\* its remote call (sid: the session id a create call returned) and the
\* handler ran to completion.
Returned(hook, key, sid, result) ==
  LET threw == (result = "throw") IN
  [NoObs EXCEPT !.hook = hook, !.step = "return", !.key = key, !.sid = sid,
                !.result = result, !.threw = threw,
                !.outcome = Outcome(backend, hook, threw),
                !.warned = Warned(backend, hook, threw)]

\* A handler suspended at `await`: the hook, the call awaited and what the
\* rest of the handler still reads (key, sid).
Continuation(hook, op, key, sid) == [hook |-> hook, op |-> op, key |-> key, sid |-> sid]

\* Continuations that agree on hook, call, key and target are interchangeable;
\* at most one of each is kept in flight.
CanSuspend(c) == Cardinality(pending) < MaxPending /\ c \notin pending

Min(a, b) == IF a < b THEN a ELSE b

\* ------------------------------------------------------------------- Init
InitHooks ==
  /\ backend \in Backends
  /\ autoCompileOnFlush \in (IF backend = "mcp" THEN {TRUE} ELSE BOOLEAN)
  /\ sessionMap = << >>
  /\ nextId = 1
  /\ hist = [k \in Keys |-> NoHist]
  /\ currentSessionId = NoKey
  /\ currentChannel = "unknown"
  /\ pending = {}
  /\ obs = NoObs

\* ======================================================================
\* MCP hooks (index.ts)
\* ======================================================================
\* ------------------------------------------- index.ts:1784  session_start
\* The handler runs to `await mcpCall(cfg, "session_start", ...)`.
SessionStartBegin(k) ==
  /\ backend = "mcp"
  /\ nextId <= MaxSessions
  /\ LET c == Continuation("session_start", "session_start", k, RemoteId(nextId, k)) IN
       /\ CanSuspend(c)
       /\ pending' = pending \cup {c}
  /\ nextId' = nextId + 1
  /\ obs' = Issued("session_start", k, MapHas(sessionMap, k), "session_start", NoId, FALSE)
  /\ hist' = [hist EXCEPT ![k].ended = FALSE]
  /\ UNCHANGED <<cfgVars, cliVars, sessionMap, recallVars, xcall, captureVars, renderVars, clientVars>>

\* The call returns: r = "id" a result with session_id, "noid" a result
\* without one, "throw" mcpCall rejected (HTTP error, MCP error, timeout).
SessionStartReturn(p, r) ==
  /\ backend = "mcp"
  /\ p \in pending
  /\ p.hook = "session_start"
  /\ sessionMap' = IF r = "id" THEN MapSet(sessionMap, p.key, p.sid) ELSE sessionMap
  /\ obs' = Returned("session_start", p.key, IF r = "id" THEN p.sid ELSE NoId,
                      IF r = "throw" THEN "throw" ELSE "ok")
  /\ hist' = [hist EXCEPT ![p.key].starts = Min(@ + 1, 2)]
  /\ pending' = pending \ {p}
  /\ UNCHANGED <<cfgVars, cliVars, nextId, recallVars, xcall, captureVars, renderVars, clientVars>>

\* --------------------------------------------- index.ts:1804  session_end
SessionEndBegin(k) ==
  /\ backend = "mcp"
  /\ LET sid == MapGet(sessionMap, k)
         c   == Continuation("session_end", "session_end", k, sid)
     IN
       IF sid = NoId
         THEN \* if (!valenceSessionId) return;
              /\ obs' = Skipped("session_end", FALSE, FALSE)
              /\ hist' = [hist EXCEPT ![k] = [starts |-> 0, ended |-> TRUE]]
              /\ UNCHANGED pending
         ELSE /\ CanSuspend(c)
              /\ pending' = pending \cup {c}
              /\ obs' = Issued("session_end", k, TRUE, "session_end", sid, FALSE)
              /\ hist' = [hist EXCEPT ![k].starts = 0]
  /\ UNCHANGED <<cfgVars, cliVars, sessionMap, nextId, recallVars, xcall, captureVars, renderVars, clientVars>>

SessionEndReturn(p, r) ==
  /\ backend = "mcp"
  /\ p \in pending
  /\ p.hook = "session_end"
  /\ sessionMap' = IF r = "ok" THEN MapDelete(sessionMap, p.key) ELSE sessionMap
  /\ obs' = Returned("session_end", p.key, NoId, r)
  /\ hist' = [hist EXCEPT ![p.key] = [starts |-> 0, ended |-> TRUE]]
  /\ pending' = pending \ {p}
  /\ UNCHANGED <<cfgVars, cliVars, nextId, recallVars, xcall, captureVars, renderVars, clientVars>>

\* --------------------- index.ts:1823, 1841  message_received / message_sent
\* The two handlers are the same code up to the role they pass ("user",
\* "assistant") and the wording of the warning; hook "message" is either.
MessageBegin(key, content) ==
  /\ backend = "mcp"
  /\ LET sid    == findValenceSession(sessionMap, key)
         mapped == MapHas(sessionMap, key)
         \* the key is not used after the await
         c      == Continuation("message", "exchange_add", NoKey, sid)
     IN
       IF sid = NoId \/ content = "empty"
         THEN \* if (!valenceSessionId) return;   if (!event.content) return;
              /\ obs' = Skipped("message", mapped, FALSE)
              /\ UNCHANGED pending
         ELSE IF content = "bad"
         THEN \* JSON.stringify of the request body throws inside mcpCall
              /\ obs' = Skipped("message", mapped, TRUE)
              /\ UNCHANGED pending
         ELSE /\ CanSuspend(c)
              /\ pending' = pending \cup {c}
              /\ obs' = Issued("message", key, mapped, "exchange_add", sid,
                               key \in Keys /\ hist[key].ended)
  /\ UNCHANGED <<cfgVars, cliVars, mcpVars, recallVars, xcall, captureVars, renderVars, clientVars>>

MessageReturn(p, r) ==
  /\ backend = "mcp"
  /\ p \in pending
  /\ p.hook = "message"
  /\ obs' = Returned("message", NoKey, NoId, r)
  /\ pending' = pending \ {p}
  /\ UNCHANGED <<cfgVars, cliVars, mcpVars, recallVars, xcall, captureVars, renderVars, clientVars>>

\* ------------------------------------------------ index.ts:1935  stop()
ServiceStop ==
  /\ backend = "mcp"
  /\ sessionMap' = MapClear(sessionMap)
  /\ hist' = [k \in Keys |-> [hist[k] EXCEPT !.starts = 0]]
  /\ obs' = [NoObs EXCEPT !.hook = "stop", !.step = "stop"]
  /\ UNCHANGED <<cfgVars, cliVars, nextId, pending, recallVars, xcall, captureVars, renderVars, clientVars>>

NextMcp ==
  \/ \E k \in Keys : SessionStartBegin(k)
  \/ \E p \in pending, r \in {"id", "noid", "throw"} : SessionStartReturn(p, r)
  \/ \E k \in Keys : SessionEndBegin(k)
  \/ \E p \in pending, r \in {"ok", "throw"} : SessionEndReturn(p, r)
  \/ \E key \in Keys \cup {NoKey}, c \in Contents : MessageBegin(key, c)
  \/ \E p \in pending, r \in {"ok", "throw"} : MessageReturn(p, r)
  \/ ServiceStop

\* ======================================================================
\* CLI hooks (session-hooks.ts).  valenceExec resolves to a result in every
\* case (r = "ok" success, "fail" success: false); it does not reject.
\* ======================================================================
\* the handler issues a call and suspends at `await valenceExec(...)`
CliCall(hook, key, op, target, parent, opt, c) ==
  /\ CanSuspend(c)
  /\ pending' = pending \cup {c}
  /\ obs' = IssuedFor(hook, "deliver", key, op, target, parent, ExecTimeout(opt))

\* the handler returns (or throws: `threw`) before any call
NoCall(hook, key, threw) ==
  /\ obs' = [Skipped(hook, FALSE, threw) EXCEPT !.key = key]
  /\ UNCHANGED pending

\* session-hooks.ts:28  before_agent_start: k = ctx.sessionKey || ctx.sessionId
CliBeforeAgentStart(k, provider) ==
  /\ backend = "cli"
  /\ IF k # NoKey
       THEN /\ currentSessionId' = k
            /\ currentChannel' = IF provider = "none" THEN "unknown" ELSE provider
       ELSE UNCHANGED cliVars
  /\ NoCall("before_agent_start", k, FALSE)
  /\ UNCHANGED <<cfgVars, mcpVars, recallVars, xcall, captureVars, renderVars, clientVars>>

\* session-hooks.ts:40  session_start: k = ctx.sessionId || event.sessionId
CliSessionStart(k) ==
  /\ backend = "cli"
  /\ IF k = NoKey
       THEN NoCall("session_start", k, FALSE)
       ELSE CliCall("session_start", k, "start", k, NoKey, 0,
                    Continuation("session_start", "start", NoKey, NoId))
  /\ hist' = MarkStarted(k)
  /\ UNCHANGED <<cfgVars, sessionMap, nextId, cliVars, recallVars, xcall, captureVars, renderVars, clientVars>>

\* session-hooks.ts:58  message_received (k: the session the event belongs
\* to; the handler does not read it)
CliMessageReceived(k, content) ==
  /\ backend = "cli"
  /\ LET sessionId == currentSessionId IN
       IF sessionId = NoKey \/ content = "empty"
         THEN NoCall("message_received", k, FALSE)
       ELSE IF content = "bad"
         THEN NoCall("message_received", k, TRUE)      \* JSON.stringify(event.content) throws
       ELSE CliCall("message_received", k, "append", sessionId, NoKey, 0,
                    Continuation("message_received", "append", NoKey, NoId))
  /\ UNCHANGED <<cfgVars, mcpVars, cliVars, recallVars, xcall, captureVars, renderVars, clientVars>>

\* session-hooks.ts:80  llm_output
CliLlmOutput(k, content) ==
  /\ backend = "cli"
  /\ LET sessionId == OrKey(currentSessionId, k) IN
       IF sessionId = NoKey \/ content = "empty"
         THEN NoCall("llm_output", k, FALSE)
       ELSE IF content = "bad"
         THEN NoCall("llm_output", k, TRUE)            \* String(...) / .join(...) throws
       ELSE CliCall("llm_output", k, "append", sessionId, NoKey, 0,
                    Continuation("llm_output", "append", NoKey, NoId))
  /\ UNCHANGED <<cfgVars, mcpVars, cliVars, recallVars, xcall, captureVars, renderVars, clientVars>>

\* session-hooks.ts:104  before_compaction: first the flush call
CliBeforeCompaction(k) ==
  /\ backend = "cli"
  /\ LET sessionId == OrKey(currentSessionId, k) IN
       IF sessionId = NoKey
         THEN NoCall("before_compaction", k, FALSE)
         ELSE CliCall("before_compaction", k, "flush", sessionId, NoKey, 0,
                      Continuation("before_compaction", "flush",
                                   IF autoCompileOnFlush THEN sessionId ELSE NoKey, NoId))
  /\ UNCHANGED <<cfgVars, mcpVars, cliVars, recallVars, xcall, captureVars, renderVars, clientVars>>

\* session-hooks.ts:125  session_end
CliSessionEnd(k) ==
  /\ backend = "cli"
  /\ IF k = NoKey
       THEN NoCall("session_end", k, FALSE)
       ELSE CliCall("session_end", k, "finalize", k, NoKey, 0,
                    Continuation("session_end", "finalize", NoKey, NoId))
  /\ hist' = MarkEnded(k)
  /\ UNCHANGED <<cfgVars, sessionMap, nextId, cliVars, recallVars, xcall, captureVars, renderVars, clientVars>>

\* session-hooks.ts:138  subagent_spawned: child = event.childSessionKey,
\* k = ctx.sessionKey || ctx.sessionId, the session that spawns (not read);
\* the parent sent is the module-level currentSessionId
CliSubagentSpawned(child, k) ==
  /\ backend = "cli"
  /\ CliCall("subagent_spawned", k, "start", child, currentSessionId, 0,
             Continuation("subagent_spawned", "start", NoKey, NoId))
  /\ hist' = MarkStarted(child)
  /\ UNCHANGED <<cfgVars, sessionMap, nextId, cliVars, recallVars, xcall, captureVars, renderVars, clientVars>>

\* session-hooks.ts:160  subagent_ended: child = event.targetSessionKey
CliSubagentEnded(child) ==
  /\ backend = "cli"
  /\ IF child = NoKey
       THEN NoCall("subagent_ended", child, FALSE)
       ELSE CliCall("subagent_ended", child, "finalize", child, NoKey, 0,
                    Continuation("subagent_ended", "finalize", NoKey, NoId))
  /\ hist' = MarkEnded(child)
  /\ UNCHANGED <<cfgVars, sessionMap, nextId, cliVars, recallVars, xcall, captureVars, renderVars, clientVars>>

\* valenceExec resolves with r and the handler resumes.  After the flush of
\* before_compaction with autoCompileOnFlush the handler issues the compile
\* call (session-hooks.ts:113); every other continuation only logs.
CliReturn(p, r) ==
  /\ backend = "cli"
  /\ p \in pending
  /\ IF p.op = "flush" /\ autoCompileOnFlush
       THEN LET c == Continuation("before_compaction", "compile", NoKey, NoId) IN
              /\ c \notin pending
              /\ pending' = (pending \ {p}) \cup {c}
              /\ obs' = [IssuedFor("before_compaction", "resume", NoKey, "compile", p.key,
                                   NoKey, ExecTimeout(CompileTimeout)) EXCEPT !.result = r]
       ELSE /\ pending' = pending \ {p}
            /\ obs' = Returned(p.hook, NoKey, NoId, r)
  /\ UNCHANGED <<cfgVars, mcpVars, cliVars, recallVars, xcall, captureVars, renderVars, clientVars>>

\* session-hooks.ts:114, 117  log.info(...) follows the awaited calls inside
\* the try block: it is reached whenever the last call resolved
SuccessLogged(o) == o.step = "return" /\ ~o.threw

NextCli ==
  \/ \E k \in Keys \cup {NoKey}, provider \in Providers : CliBeforeAgentStart(k, provider)
  \/ \E k \in Keys \cup {NoKey} : CliSessionStart(k)
  \/ \E k \in Keys \cup {NoKey}, c \in Contents : CliMessageReceived(k, c)
  \/ \E k \in Keys \cup {NoKey}, c \in Contents : CliLlmOutput(k, c)
  \/ \E k \in Keys \cup {NoKey} : CliBeforeCompaction(k)
  \/ \E k \in Keys \cup {NoKey} : CliSessionEnd(k)
  \/ \E child \in Children \cup {NoKey}, k \in Keys \cup {NoKey} : CliSubagentSpawned(child, k)
  \/ \E child \in Children \cup {NoKey} : CliSubagentEnded(child)
  \/ \E p \in pending, r \in {"ok", "fail"} : CliReturn(p, r)

\* ======================================================================
\* REST hooks (inference.ts:169-291).  restCall resolves ("ok") or rejects
\* ("throw").  k = ctx.sessionKey || ctx.sessionId.
\* ======================================================================
RestResults == {"ok", "throw"}

RestCall(hook, key, op, target, parent, c) ==
  /\ CanSuspend(c)
  /\ pending' = pending \cup {c}
  /\ obs' = IssuedFor(hook, "deliver", key, op, target, parent, 0)

\* inference.ts:175  session_start (the id is sent as it is, even undefined)
RestSessionStart(k) ==
  /\ backend = "rest"
  /\ RestCall("session_start", k, "start", k, NoKey,
              Continuation("session_start", "start", NoKey, NoId))
  /\ hist' = MarkStarted(k)
  /\ UNCHANGED <<cfgVars, sessionMap, nextId, cliVars, recallVars, xcall, captureVars, renderVars, clientVars>>

\* inference.ts:191, 208  message_received / llm_output
RestMessage(hook, k, content) ==
  /\ backend = "rest"
  /\ IF k = NoKey \/ content = "empty"
       THEN NoCall(hook, k, FALSE)
     ELSE IF content = "bad"
       THEN NoCall(hook, k, TRUE)                      \* JSON.stringify throws
     ELSE RestCall(hook, k, "append", k, NoKey, Continuation(hook, "append", NoKey, NoId))
  /\ UNCHANGED <<cfgVars, mcpVars, cliVars, recallVars, xcall, captureVars, renderVars, clientVars>>

\* inference.ts:232  before_compaction: one call, ?compile=true when configured
RestBeforeCompaction(k) ==
  /\ backend = "rest"
  /\ IF k = NoKey
       THEN NoCall("before_compaction", k, FALSE)
       ELSE RestCall("before_compaction", k,
                     IF autoCompileOnFlush THEN "flush?compile=true" ELSE "flush", k, NoKey,
                     Continuation("before_compaction", "flush", NoKey, NoId))
  /\ UNCHANGED <<cfgVars, mcpVars, cliVars, recallVars, xcall, captureVars, renderVars, clientVars>>

\* inference.ts:246, 281  session_end / subagent_ended
RestFinalize(hook, k) ==
  /\ backend = "rest"
  /\ IF k = NoKey
       THEN NoCall(hook, k, FALSE)
       ELSE RestCall(hook, k, "finalize", k, NoKey, Continuation(hook, "finalize", NoKey, NoId))
  /\ hist' = MarkEnded(k)
  /\ UNCHANGED <<cfgVars, sessionMap, nextId, cliVars, recallVars, xcall, captureVars, renderVars, clientVars>>

\* inference.ts:259  subagent_spawned: parent_session_id = ctx key (dropped
\* from the JSON body when undefined)
RestSubagentSpawned(child, k) ==
  /\ backend = "rest"
  /\ RestCall("subagent_spawned", k, "start", child, k,
              Continuation("subagent_spawned", "start", NoKey, NoId))
  /\ hist' = MarkStarted(child)
  /\ UNCHANGED <<cfgVars, sessionMap, nextId, cliVars, recallVars, xcall, captureVars, renderVars, clientVars>>

\* restCall settles with r and the handler runs to its end
RestReturnRetrying(p, r) ==
  /\ backend = "rest"
  /\ p \in pending
  /\ IF r = "throw"
       THEN /\ pending' = pending
            /\ obs' = [IssuedFor(p.hook, "resume", NoKey, p.op, NoKey, NoKey, 0) EXCEPT !.result = r]
       ELSE /\ pending' = pending \ {p}
            /\ obs' = Returned(p.hook, NoKey, NoId, r)
  /\ UNCHANGED <<cfgVars, mcpVars, cliVars, recallVars, xcall, captureVars, renderVars, clientVars>>
RestReturn(p, r) ==
  /\ backend = "rest"
  /\ p \in pending
  /\ pending' = pending \ {p}
  /\ obs' = Returned(p.hook, NoKey, NoId, r)
  /\ UNCHANGED <<cfgVars, mcpVars, cliVars, recallVars, xcall, captureVars, renderVars, clientVars>>

NextRest ==
  \/ \E k \in Keys \cup {NoKey} : RestSessionStart(k)
  \/ \E hook \in {"message_received", "llm_output"}, k \in Keys \cup {NoKey}, c \in Contents :
       RestMessage(hook, k, c)
  \/ \E k \in Keys \cup {NoKey} : RestBeforeCompaction(k)
  \/ \E k \in Keys \cup {NoKey} : RestFinalize("session_end", k)
  \/ \E child \in Children \cup {NoKey} : RestFinalize("subagent_ended", child)
  \/ \E child \in Children, k \in Keys \cup {NoKey} : RestSubagentSpawned(child, k)
  \/ \E p \in pending, r \in RestResults : RestReturn(p, r)

\* ======================================================================
\* Recall before each turn and the MEMORY.md snapshot (index.ts)
\* ======================================================================
MinPromptLen  == 5       \* index.ts:1673  event.prompt.length < 5
FallbackChars == 4000    \* index.ts:1711  mdContent.slice(0, 4000)
MaxItems == 1            \* beliefs / patterns a list call returns
MaxSyncs == 2            \* snapshots rendered in one run
WriteChunk == 16         \* tokens one write call puts into the file
MaxRecall == 2           \* beliefs one belief_query returns

valenceSystemPrompt == "valenceSystemPrompt"

\* Text is a sequence of tokens; these are the whitespace tokens.
Whitespace == {"\n", " "}

\* String.prototype.trim
RECURSIVE TrimStart(_)
TrimStart(s) == IF s # << >> /\ Head(s) \in Whitespace THEN TrimStart(Tail(s)) ELSE s

RECURSIVE TrimEnd(_)
TrimEnd(s) ==
  IF s # << >> /\ s[Len(s)] \in Whitespace THEN TrimEnd(SubSeq(s, 1, Len(s) - 1)) ELSE s

Trim(s) == TrimEnd(TrimStart(s))

\* String.prototype.slice(a, b), 0 <= a <= b
Slice(s, a, b) == SubSeq(s, a + 1, Min(b, Len(s)))

Repeat(x, n) == [i \in 1..n |-> x]

\* A belief as the remote returns it: content, top-level domain (NoDomain:
\* no domain_path), overall confidence in percent (NoConf: none given).
NoDomain == ""
NoConf == -1
Belief(content, domain, conf) == [content |-> content, domain |-> domain, conf |-> conf]

\* index.ts:22-24, 2099-2102  confidence.overall ?? "?"
ConfText(b) == IF b.conf = NoConf THEN "?" ELSE ToString(b.conf)

\* index.ts:21  beliefSummary: `[${conf}] (${domain}) ${content}`
beliefSummary(b) ==
  <<"[", ConfText(b), "]">>
    \o (IF b.domain # NoDomain THEN <<"(", b.domain, ")">> ELSE << >>)
    \o <<b.content>>

\* Array.prototype.join on lines of tokens
RECURSIVE Join(_, _)
Join(lines, sep) ==
  IF lines = << >> THEN << >>
  ELSE IF Len(lines) = 1 THEN Head(lines)
  ELSE LET half == Len(lines) \div 2 IN
         Join(SubSeq(lines, 1, half), sep) \o <<sep>>
           \o Join(SubSeq(lines, half + 1, Len(lines)), sep)

\* ---------------------------------------- index.ts:2055  generateMemoryMd
\* A pattern as the remote returns it (NoStatus: no status, NoConf: no
\* numeric confidence; confidences are in hundredths).
NoStatus == ""
Pattern(description, status, conf) == [description |-> description, status |-> status, conf |-> conf]

\* index.ts:2073  domainPath[0] ?? "general"
TopDomain(b) == IF b.domain = NoDomain THEN "general" ELSE b.domain

\* a.localeCompare(b) < 0 on the domain names of the model
Alphabetical == <<"alpha", "general", "tech", "zeta">>
Rank(d) == CHOOSE i \in DOMAIN Alphabetical : Alphabetical[i] = d

\* the comparator without its first two lines: plain alphabetical order
DomainBeforeAlphabetical(a, b) == Rank(a) < Rank(b)

\* index.ts:2081-2085  the comparator of the domains: "general" last
DomainBefore(a, b) ==
  IF a = "general" THEN FALSE
  ELSE IF b = "general" THEN TRUE
  ELSE Rank(a) < Rank(b)

\* [...byDomain.keys()].sort(...)
RECURSIVE SortDomains(_)
SortDomains(S) ==
  IF S = {} THEN << >>
  ELSE LET first == CHOOSE a \in S : \A b \in S \ {a} : DomainBefore(a, b) IN
         <<first>> \o SortDomains(S \ {first})

\* index.ts:2092-2102  confidence.overall ?? 0
ConfValue(b) == IF b.conf = NoConf THEN 0 ELSE b.conf

\* domainBeliefs.sort((a, b) => confB - confA): Array.prototype.sort is
\* stable, equal confidences keep the order of the input
MergeByConfidence(left, right) ==
  LET InLeft(i) == i + Cardinality({j \in DOMAIN right :
                                      ConfValue(right[j]) > ConfValue(left[i])})
      InRight(j) == j + Cardinality({i \in DOMAIN left :
                                       ConfValue(left[i]) >= ConfValue(right[j])}) IN
    [p \in 1..(Len(left) + Len(right)) |->
       IF \E i \in DOMAIN left : InLeft(i) = p
         THEN left[CHOOSE i \in DOMAIN left : InLeft(i) = p]
         ELSE right[CHOOSE j \in DOMAIN right : InRight(j) = p]]

RECURSIVE SortByConfidence(_)
SortByConfidence(list) ==
  IF Len(list) <= 1 THEN list
  ELSE LET half == Len(list) \div 2 IN
         MergeByConfidence(SortByConfidence(SubSeq(list, 1, half)),
                           SortByConfidence(SubSeq(list, half + 1, Len(list))))

\* index.ts:2105-2109  `- ${b.content} (confidence: ${conf})`
BeliefLine(b) == <<"-", b.content, "(confidence:", ConfText(b), ")">>

\* index.ts:2119-2121  `- [${status}] ${p.description} (confidence: ${conf})`
PatternLine(p) ==
  <<"-", "[", IF p.status = NoStatus THEN "emerging" ELSE p.status, "]", p.description,
    "(confidence:", IF p.conf = NoConf THEN "?" ELSE ToString(p.conf), ")">>

\* index.ts:2087-2112  one section per domain: heading, entries, empty line
RECURSIVE DomainSections(_, _)
DomainSections(domains, beliefs) ==
  IF domains = << >> THEN << >>
  ELSE LET domainBeliefs == SelectSeq(beliefs, LAMBDA b : TopDomain(b) = Head(domains))
           sorted == SortByConfidence(domainBeliefs) IN
         << <<"###", Head(domains)>>, << >> >>
           \o [i \in 1..Len(sorted) |-> BeliefLine(sorted[i])]
           \o << << >> >>
           \o DomainSections(Tail(domains), beliefs)

\* the lines of the document
SnapshotLines(beliefs, patterns, now) ==
  << <<"# Knowledge Snapshot">>, << >>, <<"> Last updated:", ToString(now)>>,
     <<"> disaster-recovery fallback">>, << >> >>
    \o (IF Len(beliefs) > 0
          THEN << <<"## Beliefs">>, << >> >>
                 \o DomainSections(SortDomains({TopDomain(beliefs[i]) : i \in DOMAIN beliefs}),
                                   beliefs)
          ELSE << >>)
    \o (IF Len(patterns) > 0
          THEN << <<"## Patterns">>, << >> >>
                 \o [i \in 1..Len(patterns) |-> PatternLine(patterns[i])]
                 \o << << >> >>
          ELSE << >>)

\* index.ts:2126  lines.join("\n")
generateMemoryMd(beliefs, patterns, now) == Join(SnapshotLines(beliefs, patterns, now), "\n")

\* what the list calls of a sync return here: up to MaxItems of one item
SyncBelief == Belief("x", "tech", 90)
SyncPattern == Pattern("p", "active", 80)

NoFile == [exists |-> FALSE, data |-> << >>]
FileOf(data) == [exists |-> TRUE, data |-> data]

\* what the path can hold when the plugin starts: nothing, an empty or blank
\* file, the snapshot of an earlier run
InitialFiles == {NoFile, FileOf(<< >>), FileOf(<<"\n">>), FileOf(generateMemoryMd(<<SyncBelief>>, << >>, 0))}

\* index.ts:1669  baseResult
BaseResult == [systemPrompt |-> <<valenceSystemPrompt>>]

\* index.ts:1684  beliefs.map((b) => `- ${beliefSummary(b)}`).join("\n")
MemoryContextFirstOnly(beliefs) ==
  Join([i \in 1..1 |-> <<"-">> \o beliefSummary(beliefs[i])], "\n")
MemoryContext(beliefs) ==
  Join([i \in 1..Len(beliefs) |-> <<"-">> \o beliefSummary(beliefs[i])], "\n")

\* index.ts:1688  the recalled beliefs as bullets
RecallResult(beliefs) ==
  [systemPrompt |-> <<valenceSystemPrompt, "<relevant-knowledge>", "\n">>
                      \o MemoryContext(beliefs) \o <<"\n", "</relevant-knowledge>">>]

\* what belief_query can return: up to MaxRecall of these, in any order,
\* the same one more than once
RecallItems == {Belief("x", "tech", 90), Belief("y", NoDomain, NoConf)}
RecallLists == UNION {[1..n -> RecallItems] : n \in 1..MaxRecall}

\* index.ts:1706  the snapshot as fallback
FallbackResult(mdContent) ==
  [systemPrompt |-> <<valenceSystemPrompt, "<relevant-knowledge fallback>">>
                      \o Slice(mdContent, 0, FallbackChars)]

\* Outcomes of `await mcpCall(cfg, "belief_query", ...)` and of reading its
\* result: a list of beliefs, an empty list, a result without `beliefs`,
\* a result the handler cannot read (null, beliefs not an array), a rejection.
RecallOutcomes == {"beliefs", "empty", "nobeliefs", "malformed", "throw"}

\* index.ts:1696  control reaches the catch block
ThrowsAlsoOnEmpty(r) == r \in {"throw", "malformed", "empty"}
Throws(r) == r \in {"throw", "malformed"}

\* index.ts:1677, 1703  awaits of the handler that lie inside a try block
RecallTry == {"belief_query", "readFile"}

RecallOutcome(step, threw) == IF threw /\ step \notin RecallTry THEN "rejected" ELSE "ok"

\* index.ts:1703-1720  after readFile: f is what the path held
RecallCatchNoTrim(f) ==
  IF f.exists THEN FallbackResult(f.data) ELSE BaseResult
RecallCatch(f) ==
  IF f.exists /\ Len(Trim(f.data)) > 0 THEN FallbackResult(f.data) ELSE BaseResult

\* client.ts:10-14  ValenceResult: { success, data?, error? }
NoData == [type |-> "none", data |-> << >>]
ValenceResult(success, data, error) == [success |-> success, data |-> data, error |-> error]

\* the subprocess as it ended: exit code ("null": no exit code, it could
\* not be spawned or was killed), what it wrote to stdout and to stderr
NoProc == [code |-> "null", stdout |-> << >>, stderr |-> ""]

\* opt: the timeout option the caller of valenceExec gave (0: none)
IdleCall == [fn |-> "none", pc |-> "idle", opt |-> 0, timeout |-> 0, elapsed |-> 0,
             result |-> [ok |-> TRUE, thrown |-> FALSE, kind |-> "none", error |-> ""],
             proc |-> NoProc, reply |-> ValenceResult(TRUE, NoData, "")]

IdleCapture == [pc |-> "idle", n |-> 0, todo |-> << >>, attempted |-> {}, failed |-> {},
                captured |-> 0, warned |-> 0]

NoProbe == [pc |-> "idle", text |-> << >>, verdict |-> FALSE]

\* index.ts:1902-1911  the hooks that run syncMemoryMd
SyncRuns == {"after_compaction", "session_end"}
IdleRun == [pc |-> "idle", md |-> << >>, written |-> 0]
NoRuns == [r \in SyncRuns |-> IdleRun]

NoRender == [pc |-> "idle", beliefs |-> << >>, patterns |-> << >>, md |-> << >>]

\* ------------------------------------------------ README.md:277  mcpCall
\* the code that can be inside mcpCall at the same time (hooks, tools)
Callers == {"c1", "c2"}

\* what fetch settles with.  net: the promise of fetch ("reject": network
\* error or AbortSignal.timeout); status: resp.status; json: resp.json()
\* parses the body; then the fields of McpResponse (README.md:267-272),
\* content being result.content when hasContent
NoResponse ==
  [net |-> "reject", status |-> 0, json |-> FALSE, id |-> 0, error |-> FALSE,
   isError |-> FALSE, hasContent |-> FALSE, content |-> << >>]

\* what mcpCall settles with: a value returned or an error thrown
NoValue == [type |-> "none", data |-> << >>]
Returns(value) == [kind |-> "return", error |-> "none", value |-> value]
Raises(error) == [kind |-> "throw", error |-> error, value |-> NoValue]

\* README.md:265  let requestId = 0; no call in flight, none settled yet
NoSettle == [caller |-> "none", id |-> 0, resp |-> NoResponse, outcome |-> Raises("none")]
IdleRpcCall == [pc |-> "idle", id |-> 0]
NoRpc ==
  [requestId |-> 0, calls |-> [c \in Callers |-> IdleRpcCall], issued |-> << >>,
   settled |-> NoSettle]

\* nothing invoked yet: no exit status set, nothing printed, nothing logged
NoRun ==
  [op |-> "none", net |-> "none", ok |-> FALSE, outcome |-> "none", exitCode |-> 0,
   console |-> "none", log |-> "none", synced |-> FALSE]
NoHost == [pc |-> "idle", run |-> NoRun, done |-> << >>]

\* belief_archive not called yet
NoReply == [action |-> "none", ids |-> << >>]
NoArchive ==
  [pc |-> "idle", belief_id |-> "", query |-> "", searched |-> FALSE, beliefs |-> << >>,
   calls |-> << >>, reply |-> NoReply, outcome |-> "none"]

\* no request received yet
NoRequest == [method |-> "none", body |-> << >>, responses |-> << >>, outcome |-> "none",
              warned |-> FALSE]
NoHttp == [pc |-> "idle", req |-> NoRequest, served |-> << >>]
ClientIdle == rpc = NoRpc /\ host = NoHost /\ archive = NoArchive /\ http = NoHttp

IdleTurn == [pc |-> "idle", recall |-> "none"]
NoSync == [pc |-> "idle", beliefs |-> << >>, patterns |-> << >>, md |-> << >>, written |-> 0, old |-> NoFile]
NoRobs == [turn |-> NoKey, step |-> "none", recall |-> "none", items |-> << >>,
           read |-> FALSE, seen |-> NoFile, result |-> BaseResult, outcome |-> "ok",
           log |-> "none", began |-> FALSE, prompt |-> 0]

\* the handler of session k returns `result`
Done(k, recall, read, seen, result, outcome) ==
  [NoRobs EXCEPT !.turn = k, !.step = "done", !.recall = recall, !.read = read,
                 !.seen = seen, !.result = result, !.outcome = outcome]

Stepped(k, step) == [NoRobs EXCEPT !.turn = k, !.step = step]

RecallIdle ==
  /\ turn = [k \in Keys |-> IdleTurn]
  /\ sync = NoSync
  /\ clock = 0
  /\ robs = NoRobs

Init ==
  /\ InitHooks
  /\ autoRecall = TRUE
  /\ memoryMdAbsPath = TRUE
  /\ file = NoFile
  /\ RecallIdle
  /\ xcall = IdleCall
  /\ cap = IdleCapture
  /\ probe = NoProbe
  /\ render = NoRender
  /\ runs = NoRuns
  /\ ClientIdle

InitRecall ==
  /\ backend = "mcp"
  /\ autoCompileOnFlush = TRUE
  /\ sessionMap = << >>
  /\ nextId = 1
  /\ hist = [k \in Keys |-> NoHist]
  /\ currentSessionId = NoKey
  /\ currentChannel = "unknown"
  /\ pending = {}
  /\ obs = NoObs
  /\ autoRecall \in BOOLEAN
  /\ memoryMdAbsPath \in BOOLEAN
  /\ file \in InitialFiles
  /\ RecallIdle
  /\ xcall = IdleCall
  /\ cap = IdleCapture
  /\ probe = NoProbe
  /\ render = NoRender
  /\ runs = NoRuns
  /\ ClientIdle

\* ------------------------------------ index.ts:1668  before_agent_start
\* promptLen = 0 stands for a missing or empty event.prompt
\* the same test without the limits on the prompt
RecallSkippedWhenDisabled(promptLen) == ~autoRecall

\* index.ts:1673  !cfg.autoRecall || !event.prompt || event.prompt.length < 5
RecallSkipped(promptLen) == ~autoRecall \/ promptLen = 0 \/ promptLen < MinPromptLen

RecallBegin(k, promptLen) ==
  /\ turn[k].pc = "idle"
  /\ IF RecallSkipped(promptLen)
       THEN /\ robs' = [Done(k, "none", FALSE, NoFile, BaseResult, "ok")
                          EXCEPT !.began = TRUE, !.prompt = promptLen]
            /\ UNCHANGED turn
       ELSE /\ turn' = [turn EXCEPT ![k] = [pc |-> "recall", recall |-> "none"]]
            /\ robs' = [Stepped(k, "call") EXCEPT !.began = TRUE, !.prompt = promptLen]
  /\ UNCHANGED <<hookVars, xcall, captureVars, renderVars, clientVars, autoRecall, memoryMdAbsPath, file, sync, clock>>

\* mcpCall settles with r (with the list `beliefs` when r = "beliefs")
RecallReturn(k, r, beliefs) ==
  /\ turn[k].pc = "recall"
  /\ IF Throws(r)
       THEN IF memoryMdAbsPath
              THEN /\ turn' = [turn EXCEPT ![k] = [pc |-> "read", recall |-> r]]
                   /\ robs' = [Stepped(k, "catch") EXCEPT !.recall = r]
              ELSE /\ turn' = [turn EXCEPT ![k] = IdleTurn]
                   /\ robs' = Done(k, r, FALSE, NoFile, BaseResult,
                                   RecallOutcome("belief_query", TRUE))
       ELSE /\ turn' = [turn EXCEPT ![k] = IdleTurn]
            /\ robs' = IF r = "beliefs"
                         THEN [Done(k, r, FALSE, NoFile, RecallResult(beliefs), "ok")
                                 EXCEPT !.items = beliefs]
                         ELSE Done(k, r, FALSE, NoFile, BaseResult, "ok")
  /\ UNCHANGED <<hookVars, xcall, captureVars, renderVars, clientVars, autoRecall, memoryMdAbsPath, file, sync, clock>>

\* index.ts:1704  `await readFile(memoryMdAbsPath)` settles: it rejects when
\* the file does not exist, else it yields what the file holds now
FallbackRead(k) ==
  /\ turn[k].pc = "read"
  /\ turn' = [turn EXCEPT ![k] = IdleTurn]
  /\ robs' = Done(k, turn[k].recall, TRUE, file, RecallCatch(file),
                  RecallOutcome("readFile", ~file.exists))
  /\ UNCHANGED <<hookVars, xcall, captureVars, renderVars, clientVars, autoRecall, memoryMdAbsPath, file, sync, clock>>

\* ------------------------------------------ index.ts:1869  syncMemoryMd
\* the same catch block, throwing the error on to the hook
SyncCaughtRethrows == [log |-> "warn", outcome |-> "rejected"]

\* index.ts:1896-1898  catch (err) { log.warn(...) }: the error ends here,
\* the awaiting hook resumes normally
SyncCaught == [log |-> "warn", outcome |-> "ok"]

\* a step of the sync has thrown into the catch block
SyncFailed(step) ==
  [Stepped(NoKey, step) EXCEPT !.log = SyncCaught.log, !.outcome = SyncCaught.outcome]

\* index.ts:1902-1911, 1927  the hooks that await syncMemoryMd
SyncTriggers == {"after_compaction", "session_end", "service_start"}

\* called by the after_compaction handler, the second session_end handler
\* and the start of the service
SyncBegin(trigger) ==
  /\ sync.pc = "idle"
  /\ clock < MaxSyncs
  /\ sync' = IF memoryMdAbsPath THEN [NoSync EXCEPT !.pc = "list"] ELSE NoSync
  /\ robs' = Stepped(NoKey, trigger)
  /\ UNCHANGED <<hookVars, xcall, captureVars, renderVars, clientVars, autoRecall, memoryMdAbsPath, file, turn, clock>>

\* index.ts:1874  listBeliefs settles
SyncListReturn(r, nb) ==
  /\ sync.pc = "list"
  /\ sync' = IF r = "throw" THEN NoSync
             ELSE [sync EXCEPT !.pc = "patterns", !.beliefs = Repeat(SyncBelief, nb)]
  /\ robs' = IF r = "throw" THEN SyncFailed("listBeliefs") ELSE Stepped(NoKey, "listBeliefs")
  /\ UNCHANGED <<hookVars, xcall, captureVars, renderVars, clientVars, autoRecall, memoryMdAbsPath, file, turn, clock>>

\* index.ts:1882-1888  listPatterns settles (a failure leaves patterns
\* empty), then the snapshot is rendered
SyncPatternsReturn(r, np) ==
  /\ sync.pc = "patterns"
  /\ clock' = clock + 1
  /\ LET patterns == IF r = "throw" THEN << >> ELSE Repeat(SyncPattern, np) IN
       sync' = [sync EXCEPT !.pc = "mkdir", !.patterns = patterns,
                            !.md = generateMemoryMd(sync.beliefs, patterns, clock + 1)]
  /\ robs' = Stepped(NoKey, "listPatterns")
  /\ UNCHANGED <<hookVars, xcall, captureVars, renderVars, clientVars, autoRecall, memoryMdAbsPath, file, turn>>

\* index.ts:1890  mkdir settles
SyncMkdir(r) ==
  /\ sync.pc = "mkdir"
  /\ sync' = IF r = "throw" THEN NoSync ELSE [sync EXCEPT !.pc = "open"]
  /\ robs' = IF r = "throw" THEN SyncFailed("mkdir") ELSE Stepped(NoKey, "mkdir")
  /\ UNCHANGED <<hookVars, xcall, captureVars, renderVars, clientVars, autoRecall, memoryMdAbsPath, file, turn, clock>>

\* index.ts:1891  writeFile(path, md) opens the path itself with flag "w":
\* the file is created or truncated in place
\* the same open with flag "a": what the file held stays in front
OpenForAppend(f) == FileOf(f.data)

\* flag "w", the default of writeFile: the file is created or emptied
OpenForWrite(f) == FileOf(<< >>)

SyncWriteOpen(r) ==
  /\ sync.pc = "open"
  /\ IF r = "throw"
       THEN sync' = NoSync /\ UNCHANGED file
       ELSE /\ file' = OpenForWrite(file)
            /\ sync' = [sync EXCEPT !.pc = "writing", !.old = file]
  /\ robs' = IF r = "throw" THEN SyncFailed("open") ELSE Stepped(NoKey, "open")
  /\ UNCHANGED <<hookVars, xcall, captureVars, renderVars, clientVars, autoRecall, memoryMdAbsPath, turn, clock>>

\* ... and then writes the text, WriteChunk tokens with each write call;
\* after the last one syncMemoryMd returns, and `sync` keeps what this sync
\* fetched and rendered until the next one begins
SyncWriteChunk ==
  /\ sync.pc = "writing"
  /\ LET n == Min(WriteChunk, Len(sync.md) - sync.written) IN
       /\ file' = FileOf(file.data \o SubSeq(sync.md, sync.written + 1, sync.written + n))
       /\ sync' = IF sync.written + n = Len(sync.md)
                    THEN [sync EXCEPT !.pc = "idle", !.written = 0]
                    ELSE [sync EXCEPT !.written = sync.written + n]
  /\ robs' = Stepped(NoKey, "write")
  /\ UNCHANGED <<hookVars, xcall, captureVars, renderVars, clientVars, autoRecall, memoryMdAbsPath, turn, clock>>

\* recall turns next to the syncs: the lists recall returns do not matter to
\* the file, one list stands for them
NextRecall ==
  \/ \E k \in Keys, promptLen \in {0, MinPromptLen - 1, MinPromptLen} : RecallBegin(k, promptLen)
  \/ \E k \in Keys, r \in RecallOutcomes :
       \E beliefs \in (IF r = "beliefs" THEN {<<SyncBelief>>} ELSE {<< >>}) : RecallReturn(k, r, beliefs)
  \/ \E k \in Keys : FallbackRead(k)
  \/ \E trigger \in SyncTriggers : SyncBegin(trigger)
  \/ \E r \in {"ok", "throw"}, nb \in 0..MaxItems : SyncListReturn(r, nb)
  \/ \E r \in {"ok", "throw"}, np \in 0..MaxItems : SyncPatternsReturn(r, np)
  \/ \E r \in {"ok", "throw"} : SyncMkdir(r)
  \/ \E r \in {"ok", "throw"} : SyncWriteOpen(r)
  \/ SyncWriteChunk

SpecRecall == InitRecall /\ [][NextRecall]_vars

\* the recall turns alone, over every list belief_query can return
NextInject ==
  \/ \E k \in Keys, promptLen \in {0, MinPromptLen - 1, MinPromptLen} : RecallBegin(k, promptLen)
  \/ \E k \in Keys, r \in RecallOutcomes :
       \E beliefs \in (IF r = "beliefs" THEN RecallLists ELSE {<< >>}) : RecallReturn(k, r, beliefs)
  \/ \E k \in Keys : FallbackRead(k)

SpecInject == InitRecall /\ [][NextInject]_vars

\* ======================================================================
\* Transport calls and their deadlines (client.ts, README.md:258-396)
\* ======================================================================
TickMs == 5000           \* granularity of the clock

\* the transport functions; healthCheck exists once per client
ExecFns  == {"valenceExec", "valenceExecWithStdin", "healthCheck(cli)"}
FetchFns == {"mcpCall", "healthCheck(mcp)"}

\* client.ts:37, 80, 111; README.md:295, 382   opt: the caller's timeout option
CallTimeout(fn, opt) ==
  CASE fn = "healthCheck(cli)" -> ExecTimeout(HealthTimeout)
    [] fn = "healthCheck(mcp)" -> HealthTimeout
    [] fn = "mcpCall"          -> McpTimeout
    [] OTHER                   -> ExecTimeout(opt)

\* client.ts:111, session-hooks.ts:113  the option valenceExec is called with
CallOption(fn, opt) ==
  CASE fn = "healthCheck(cli)" -> HealthTimeout
    [] fn \in {"valenceExec", "valenceExecWithStdin"} -> opt
    [] OTHER -> 0

Success == [ok |-> TRUE, thrown |-> FALSE, kind |-> "none", error |-> ""]

\* What the caller gets when the peer answers in time.  mcpCall rejects with
\* an Error on a failure, the others resolve to a record with ok / success
\* false and an error text.
Answered(fn, good) ==
  IF good THEN Success
  ELSE [ok |-> FALSE, thrown |-> (fn = "mcpCall"), kind |-> "none",
        error |-> IF fn \in FetchFns THEN "Valence HTTP" ELSE "stderr"]

\* What the caller gets once the deadline has fired.
\*   fetch with AbortSignal.timeout rejects with a DOMException named
\*   TimeoutError: mcpCall passes it on, healthCheck returns its text,
\*   which starts with that name.
\*   execFile rejects with "Command failed: ..." (killed, signal SIGTERM),
\*   of which valenceExec keeps stderr || err.message; spawn closes with
\*   code null, of which valenceExecWithStdin keeps stderr.
TimedOut(fn, stderr) ==
  CASE fn = "mcpCall" ->
         [ok |-> FALSE, thrown |-> TRUE, kind |-> "Timeout", error |-> "TimeoutError"]
    [] fn = "healthCheck(mcp)" ->
         [ok |-> FALSE, thrown |-> FALSE, kind |-> "Timeout", error |-> "TimeoutError"]
    [] fn = "valenceExecWithStdin" ->
         [ok |-> FALSE, thrown |-> FALSE, kind |-> "none", error |-> stderr]
    [] OTHER ->
         [ok |-> FALSE, thrown |-> FALSE, kind |-> "none",
          error |-> IF stderr # "" THEN stderr ELSE "Command failed"]

InitTransport ==
  /\ backend = "mcp"
  /\ autoCompileOnFlush = TRUE
  /\ sessionMap = << >>
  /\ nextId = 1
  /\ hist = [k \in Keys |-> NoHist]
  /\ currentSessionId = NoKey
  /\ currentChannel = "unknown"
  /\ pending = {}
  /\ obs = NoObs
  /\ autoRecall = TRUE
  /\ memoryMdAbsPath = TRUE
  /\ file = NoFile
  /\ RecallIdle
  /\ xcall = IdleCall
  /\ cap = IdleCapture
  /\ probe = NoProbe
  /\ render = NoRender
  /\ runs = NoRuns
  /\ ClientIdle

\* a caller invokes fn; the request is sent / the subprocess is spawned
XStart(fn, opt) ==
  /\ xcall.pc \in {"idle", "returned"}
  /\ xcall' = [IdleCall EXCEPT !.fn = fn, !.pc = "running", !.opt = CallOption(fn, opt),
                                !.timeout = CallTimeout(fn, opt)]
  /\ UNCHANGED <<hookVars, recallVars, captureVars, renderVars, clientVars>>

\* time passes while the call is outstanding
XTick ==
  /\ xcall.pc = "running"
  /\ xcall.elapsed < xcall.timeout
  /\ xcall' = [xcall EXCEPT !.elapsed = xcall.elapsed + TickMs]
  /\ UNCHANGED <<hookVars, recallVars, captureVars, renderVars, clientVars>>

\* the server answers / the subprocess exits by itself before the deadline
XRespond(good) ==
  /\ xcall.pc = "running"
  /\ xcall.elapsed < xcall.timeout
  /\ xcall' = [xcall EXCEPT !.pc = "returned", !.result = Answered(xcall.fn, good)]
  /\ UNCHANGED <<hookVars, recallVars, captureVars, renderVars, clientVars>>

\* the deadline fires: fetch is aborted and rejects at once; the subprocess
\* is sent SIGTERM and the call stays open until it has exited
XDeadline ==
  /\ xcall.pc = "running"
  /\ xcall.elapsed >= xcall.timeout
  /\ xcall' = IF xcall.fn \in FetchFns
                THEN [xcall EXCEPT !.pc = "returned", !.result = TimedOut(xcall.fn, "")]
                ELSE [xcall EXCEPT !.pc = "killed"]
  /\ UNCHANGED <<hookVars, recallVars, captureVars, renderVars, clientVars>>

\* the signalled subprocess exits (stderr: what it had written)
XChildExit(stderr) ==
  /\ xcall.pc = "killed"
  /\ xcall' = [xcall EXCEPT !.pc = "returned", !.result = TimedOut(xcall.fn, stderr)]
  /\ UNCHANGED <<hookVars, recallVars, captureVars, renderVars, clientVars>>

NextTransport ==
  \/ \E fn \in ExecFns \cup FetchFns, opt \in {0, CompileTimeout} : XStart(fn, opt)
  \/ XTick
  \/ \E good \in BOOLEAN : XRespond(good)
  \/ XDeadline
  \/ \E stderr \in {"", "stderr"} : XChildExit(stderr)

\* The clock advances, a due timer fires, and a subprocess sent SIGTERM exits
\* (the default disposition of the signal).
SpecTransport ==
  /\ InitTransport
  /\ [][NextTransport]_vars
  /\ WF_vars(XTick)
  /\ WF_vars(XDeadline)
  /\ WF_vars(\E stderr \in {"", "stderr"} : XChildExit(stderr))

\* ======================================================================
\* Capture after each turn (index.ts:1726-1780, agent_end)
\* ======================================================================
CaptureLimit == 3        \* index.ts:1749  capturable.slice(0, 3)
MaxCapturable == 4       \* texts of one turn that pass shouldCapture

\* index.ts:1749  the candidates the loop runs over; candidates are numbered
\* in the order of the messages
CaptureSliceAll(capturable) == capturable
CaptureSlice(capturable) == Slice(capturable, 0, CaptureLimit)

\* the loop goes on with the next candidate, or the handler returns
NextCandidate(c) ==
  IF Len(c.todo) > 1
    THEN [c EXCEPT !.pc = "search", !.todo = Tail(c.todo),
                   !.attempted = c.attempted \cup {c.todo[2]}]
    ELSE [c EXCEPT !.pc = "done", !.todo = << >>]

\* index.ts:1727  agent_end: n texts of the turn pass shouldCapture; the
\* duplicate check of the first candidate is issued
AgentEnd(success, n) ==
  /\ cap.pc \in {"idle", "done"}
  /\ cap' = IF ~success \/ n = 0
              THEN [IdleCapture EXCEPT !.pc = "done", !.n = n]
              ELSE LET todo == CaptureSlice([i \in 1..n |-> i]) IN
                     [IdleCapture EXCEPT !.pc = "search", !.n = n, !.todo = todo,
                                         !.attempted = {todo[1]}]
  /\ UNCHANGED <<hookVars, recallVars, xcall, probe, renderVars, clientVars>>

\* index.ts:1752-1759  mcpCall("belief_search") settles: a similar belief
\* exists ("match": continue), none exists, or the check failed
CaptureSearchReturn(r) ==
  /\ cap.pc = "search"
  /\ cap' = CASE r = "none"  -> [cap EXCEPT !.pc = "create"]
              [] r = "match" -> NextCandidate(cap)
              [] OTHER       -> NextCandidate([cap EXCEPT !.failed = @ \cup {Head(cap.todo)},
                                                          !.warned = @ + 1])
  /\ UNCHANGED <<hookVars, recallVars, xcall, probe, renderVars, clientVars>>

\* index.ts:1761-1769  mcpCall("belief_create") settles
CaptureCreateReturn(r) ==
  /\ cap.pc = "create"
  /\ cap' = IF r = "ok"
              THEN NextCandidate([cap EXCEPT !.captured = @ + 1])
              ELSE NextCandidate([cap EXCEPT !.failed = @ \cup {Head(cap.todo)},
                                             !.warned = @ + 1])
  /\ UNCHANGED <<hookVars, recallVars, xcall, probe, renderVars, clientVars>>

InitCapture == InitTransport

NextCapture ==
  \/ \E success \in BOOLEAN, n \in 0..MaxCapturable : AgentEnd(success, n)
  \/ \E r \in {"none", "match", "throw"} : CaptureSearchReturn(r)
  \/ \E r \in {"ok", "throw"} : CaptureCreateReturn(r)

SpecCapture == InitCapture /\ [][NextCapture]_vars

\* ======================================================================
\* The snapshot document (README.md:332-368, index.ts:1869-1899, 2055-2127):
\* what the remote answered to the two list calls of one sync, and the
\* document rendered from it
\* ======================================================================
MaxRender == 3

\* index.ts:1875, 1882  the limits syncMemoryMd asks the remote for
SyncBeliefLimit == 100
SyncPatternLimit == 30

\* README.md:332-352  listBeliefs: the limit goes into the request; what
\* comes back is result.beliefs as it is
listBeliefs(reply, limit) == reply.beliefs

\* README.md:357-368  listPatterns: likewise result.patterns
listPatterns(reply, limit) == reply.patterns

RenderBeliefs ==
  {Belief(c, d, conf) : c \in {"a", "b"}, d \in {NoDomain, "alpha", "zeta"},
                        conf \in {NoConf, 50, 90}}

RECURSIVE ListsUpTo(_, _)
ListsUpTo(S, n) ==
  IF n = 0 THEN {<< >>}
  ELSE LET shorter == ListsUpTo(S, n - 1) IN
         shorter \cup {Append(l, x) : l \in {m \in shorter : Len(m) = n - 1}, x \in S}

\* what the remote can answer: any short list of beliefs, with or without
\* patterns; nothing makes it honour the limit of the request
RemoteReplies ==
  {[beliefs |-> b, patterns |-> << >>] : b \in ListsUpTo(RenderBeliefs, MaxRender)}
    \cup {[beliefs |-> <<b>>, patterns |-> <<SyncPattern, Pattern("q", NoStatus, NoConf)>>] :
             b \in RenderBeliefs}
    \cup {[beliefs |-> Repeat(SyncBelief, SyncBeliefLimit + 1), patterns |-> << >>],
          [beliefs |-> << >>, patterns |-> Repeat(SyncPattern, SyncPatternLimit + 1)]}

InitRender ==
  /\ backend = "mcp"
  /\ autoCompileOnFlush = TRUE
  /\ sessionMap = << >>
  /\ nextId = 1
  /\ hist = [k \in Keys |-> NoHist]
  /\ currentSessionId = NoKey
  /\ currentChannel = "unknown"
  /\ pending = {}
  /\ obs = NoObs
  /\ autoRecall = TRUE
  /\ memoryMdAbsPath = TRUE
  /\ file = NoFile
  /\ RecallIdle
  /\ xcall = IdleCall
  /\ cap = IdleCapture
  /\ probe = NoProbe
  /\ ClientIdle
  /\ runs = NoRuns
  /\ \E reply \in RemoteReplies :
       render = [NoRender EXCEPT !.pc = "fetched",
                                 !.beliefs = listBeliefs(reply, SyncBeliefLimit),
                                 !.patterns = listPatterns(reply, SyncPatternLimit)]

\* index.ts:1888  const md = generateMemoryMd(beliefs, patterns)
RenderSnapshot ==
  /\ render.pc = "fetched"
  /\ render' = [render EXCEPT !.pc = "rendered",
                              !.md = generateMemoryMd(render.beliefs, render.patterns, 0)]
  /\ UNCHANGED <<hookVars, recallVars, xcall, captureVars, runs, clientVars>>

NextRender == RenderSnapshot

SpecRender == InitRender /\ [][NextRender]_vars

\* ======================================================================
\* The MCP client (README.md:258-325): mcpCall
\* ======================================================================
MaxRequests == 4         \* calls of mcpCall in one run
MaxContent == 2          \* items in result.content

\* the tokens that are a JSON value
JsonValues == {"{\"a\":1}", "{\"error\":\"e\"}", "null"}

\* the texts a content item can carry, as tokens: JSON, other text, nothing
JsonTexts == {"{\"a\":1}"}
ContentTexts == JsonTexts \cup {"plain", ""}
TextTokens(t) == IF t = "" THEN << >> ELSE <<t>>

ContentItems ==
  {[type |-> "text", text |-> t] : t \in ContentTexts} \cup {[type |-> "image", text |-> "plain"]}
ContentLists == UNION {[1..n -> ContentItems] : n \in 0..MaxContent}

\* the responses a call with identifier id can get: fetch rejects, a
\* non-2xx status, a 2xx body that is not JSON, or a JSON-RPC response;
\* nothing makes the identifier of the response that of the request
McpResponses(id) ==
  {NoResponse,
   [NoResponse EXCEPT !.net = "ok", !.status = 500],
   [NoResponse EXCEPT !.net = "ok", !.status = 200]}
    \cup {[NoResponse EXCEPT !.net = "ok", !.status = 200, !.json = TRUE, !.id = i,
                              !.error = e, !.isError = ie, !.hasContent = TRUE, !.content = c] :
             i \in {id, id + 1}, e \in BOOLEAN, ie \in BOOLEAN, c \in ContentLists}
    \cup {[NoResponse EXCEPT !.net = "ok", !.status = 200, !.json = TRUE, !.id = i,
                              !.error = e, !.isError = ie] :
             i \in {id, id + 1}, e \in BOOLEAN, ie \in BOOLEAN}

\* JSON.parse on a text of tokens: white space around the one value is
\* allowed, anything else is a SyntaxError
JsonParses(text) == Len(Trim(text)) = 1 /\ Trim(text)[1] \in JsonValues
JsonParse(text) ==
  CASE Trim(text)[1] = "null" -> [type |-> "null", data |-> << >>]
    [] Trim(text)[1] = "{\"error\":\"e\"}" -> [type |-> "object", data |-> <<"error", "e">>]
    [] OTHER -> [type |-> "object", data |-> <<"a", "1">>]

\* the same try with a catch that throws the SyntaxError on
ParseOrWrapRaising(joined) ==
  IF JsonParses(joined) THEN Returns(JsonParse(joined)) ELSE Raises("SyntaxError")

\* README.md:319-324  try { return JSON.parse(joined) } catch { return { text: joined } }
ParseOrWrap(joined) ==
  IF JsonParses(joined) THEN Returns(JsonParse(joined))
  ELSE Returns([type |-> "object", data |-> <<"text">> \o joined])

\* README.md:298-324  what mcpCall makes of the settled fetch
mcpCall(resp) ==
  IF resp.net = "reject" THEN Raises("fetch")
  ELSE IF resp.status \notin 200..299 THEN Raises("Valence HTTP")
  ELSE IF ~resp.json THEN Raises("resp.json")
  ELSE IF resp.error THEN Raises("Valence MCP error")
  ELSE IF resp.isError THEN Raises("Valence tool error")
  ELSE LET items == SelectSeq(resp.content, LAMBDA c : c.type = "text")
           texts == [i \in 1..Len(items) |-> TextTokens(items[i].text)] IN
         IF Len(texts) = 0 THEN Returns([type |-> "object", data |-> << >>])
         ELSE ParseOrWrap(Join(texts, "\n"))

\* ++requestId without the increment
NextRequestIdReused(n) == IF n = 0 THEN 1 ELSE n

\* README.md:282  const id = ++requestId
NextRequestId(n) == n + 1

\* README.md:282-296  a caller enters mcpCall: the identifier is taken and
\* the request is sent, the caller waits at `await fetch`
McpCallSend(c) ==
  /\ rpc.calls[c].pc = "idle"
  /\ Len(rpc.issued) < MaxRequests
  /\ LET id == NextRequestId(rpc.requestId) IN
       rpc' = [rpc EXCEPT !.requestId = id, !.calls[c] = [pc |-> "sent", id |-> id],
                          !.issued = Append(@, id), !.settled = NoSettle]
  /\ UNCHANGED <<hookVars, recallVars, xcall, captureVars, renderVars, host, archive, http>>

\* README.md:298-324  the fetch of c settles and mcpCall returns or throws
McpCallSettle(c, resp) ==
  /\ rpc.calls[c].pc = "sent"
  /\ rpc' = [rpc EXCEPT !.calls[c] = IdleRpcCall,
                        !.settled = [caller |-> c, id |-> rpc.calls[c].id, resp |-> resp,
                                     outcome |-> mcpCall(resp)]]
  /\ UNCHANGED <<hookVars, recallVars, xcall, captureVars, renderVars, host, archive, http>>

InitMcpCall == InitTransport

\* calls next to each other: fetch rejects, or a response arrives that holds
\* one JSON text and carries one of the identifiers issued so far
IdResponses ==
  {NoResponse}
    \cup {[NoResponse EXCEPT !.net = "ok", !.status = 200, !.json = TRUE, !.id = rpc.issued[i],
                              !.hasContent = TRUE,
                              !.content = <<[type |-> "text", text |-> "{\"a\":1}"]>>] :
             i \in DOMAIN rpc.issued}

NextMcpCall ==
  \/ \E c \in Callers : McpCallSend(c)
  \/ \E c \in Callers : \E resp \in IdResponses : McpCallSettle(c, resp)

SpecMcpCall == InitMcpCall /\ [][NextMcpCall]_vars

\* one call after the other, over every response
NextMcpResult ==
  \/ McpCallSend("c1")
  \/ \E resp \in McpResponses(rpc.calls["c1"].id) : McpCallSettle("c1", resp)

SpecMcpResult == InitMcpCall /\ [][NextMcpResult]_vars

\* ======================================================================
\* The CLI client (client.ts:22-100): what valenceExec and
\* valenceExecWithStdin make of the subprocess that has ended
\* ======================================================================
\* what the subprocess can have written to stdout: JSON (an object, an
\* object with an error field, null; also with white space around it),
\* other text with white space around it, nothing
Stdouts ==
  {<<v>> : v \in JsonValues}
    \cup {<<"\n", "{\"a\":1}", "\n">>, <<" ", "done", "\n">>, << >>}

\* { text: stdout.trim() }
TextData(stdout) == [type |-> "object", data |-> <<"text">> \o Trim(stdout)]

\* parsed.error || stderr   (a TypeError when parsed is null)
ErrorOf(parsed, stderr) ==
  IF parsed.type = "object" /\ parsed.data # << >> /\ parsed.data[1] = "error"
    THEN parsed.data[2] ELSE stderr

\* client.ts:35-57  execFile resolves when the exit code is 0, else it
\* rejects with an error that carries stdout and stderr (none when the
\* subprocess could not be spawned)
valenceExec(proc) ==
  IF proc.code = "0"
    THEN IF JsonParses(proc.stdout)
           THEN ValenceResult(TRUE, JsonParse(proc.stdout), "")
           ELSE ValenceResult(TRUE, TextData(proc.stdout), "")
    ELSE IF JsonParses(proc.stdout) /\ JsonParse(proc.stdout).type # "null"
           THEN ValenceResult(FALSE, JsonParse(proc.stdout),
                              ErrorOf(JsonParse(proc.stdout), proc.stderr))
           ELSE ValenceResult(FALSE, NoData,
                              IF proc.stderr # "" THEN proc.stderr ELSE "Command failed")

\* client.ts:89-100  the close and the error handler of the spawned process
valenceExecWithStdin(proc) ==
  IF proc.code = "null" /\ proc.stdout = << >> /\ proc.stderr = ""
    THEN ValenceResult(FALSE, NoData, "Error: spawn")
  ELSE IF JsonParses(proc.stdout)
            /\ (proc.code = "0" \/ JsonParse(proc.stdout).type # "null")
    THEN ValenceResult(proc.code = "0", JsonParse(proc.stdout),
                       IF proc.code # "0" THEN ErrorOf(JsonParse(proc.stdout), proc.stderr)
                       ELSE "")
  ELSE ValenceResult(proc.code = "0", TextData(proc.stdout),
                     IF proc.code # "0" THEN proc.stderr ELSE "")

\* the subprocess of the call under way ends by itself and the call returns
XExit(code, stdout, stderr) ==
  /\ xcall.pc = "running"
  /\ xcall.elapsed < xcall.timeout
  /\ xcall.fn \in {"valenceExec", "valenceExecWithStdin"}
  /\ LET proc == [code |-> code, stdout |-> stdout, stderr |-> stderr]
         reply == IF xcall.fn = "valenceExec" THEN valenceExec(proc)
                  ELSE valenceExecWithStdin(proc) IN
       xcall' = [xcall EXCEPT !.pc = "returned", !.proc = proc, !.reply = reply,
                              !.result = [ok |-> reply.success, thrown |-> FALSE,
                                          kind |-> "none", error |-> reply.error]]
  /\ UNCHANGED <<hookVars, recallVars, captureVars, renderVars, clientVars>>

\* client.ts:37  timeout: the subprocess was sent SIGTERM at the deadline and
\* now exits.  It dies of the signal (code null), or it handles the signal
\* and exits with a code of its own; execFile resolves on code 0 with no
\* signal, whether or not it had sent one.
XExitSignalled(code, stdout, stderr) ==
  /\ xcall.pc = "killed"
  /\ xcall.fn = "valenceExec"
  /\ LET proc == [code |-> code, stdout |-> stdout, stderr |-> stderr]
         reply == valenceExec(proc) IN
       xcall' = [xcall EXCEPT !.pc = "returned", !.proc = proc, !.reply = reply,
                              !.result = [ok |-> reply.success, thrown |-> FALSE,
                                          kind |-> "none", error |-> reply.error]]
  /\ UNCHANGED <<hookVars, recallVars, captureVars, renderVars, clientVars>>

NextExec ==
  \/ \E fn \in {"valenceExec", "valenceExecWithStdin"}, opt \in {0, CompileTimeout} :
       XStart(fn, opt)
  \/ XTick
  \/ XDeadline
  \/ \E code \in {"0", "1", "null"}, stdout \in Stdouts, stderr \in {"", "stderr"} :
       XExit(code, stdout, stderr)
  \/ \E code \in {"0", "1", "null"}, stdout \in {<<"{\"a\":1}">>, << >>} :
       XExitSignalled(code, stdout, "")
  \/ \E stderr \in {"", "stderr"} : XChildExit(stderr)

SpecExec == InitTransport /\ [][NextExec]_vars

(***************************************************************************)
(* The service, the `valence` commands and the agent tools                 *)
(* (index.ts:85-112, 1917-2007), each run against one answer of the server *)
(***************************************************************************)
MaxCommands == 2

\* README.md:373-396  healthCheck: never throws, reports ok or an error
healthCheck(resp) ==
  IF resp.net = "reject" THEN [ok |-> FALSE, error |-> "fetch"]
  ELSE IF resp.status \notin 200..299 THEN [ok |-> FALSE, error |-> "HTTP"]
  ELSE IF ~resp.json THEN [ok |-> FALSE, error |-> "resp.json"]
  ELSE [ok |-> TRUE, error |-> "none"]

\* what the server may answer to the one request of an operation
HostResponses ==
  {NoResponse,
   [NoResponse EXCEPT !.net = "ok", !.status = 500],
   [NoResponse EXCEPT !.net = "ok", !.status = 200],
   [NoResponse EXCEPT !.net = "ok", !.status = 200, !.json = TRUE, !.id = 1,
                      !.hasContent = TRUE,
                      !.content = <<[type |-> "text", text |-> "{\"a\":1}"]>>]}

HealthOps == {"valence status", "service start"}
CallOps == {"valence search", "valence add", "belief_query"}

\* index.ts:1950-1963  valence status
StatusAction(health) ==
  IF health.ok
    THEN [NoRun EXCEPT !.op = "valence status", !.ok = TRUE, !.outcome = "ok",
                       !.console = "Connected"]
    ELSE [NoRun EXCEPT !.op = "valence status", !.outcome = "ok",
                       !.console = "Not connected", !.exitCode = 1]

\* index.ts:1919-1933  start(): the first sync runs only when the server
\* answered, and syncMemoryMd catches what it meets (index.ts:1896-1898)
ServiceStart(health) ==
  IF health.ok
    THEN [NoRun EXCEPT !.op = "service start", !.ok = TRUE, !.log = "info",
                       !.synced = TRUE, !.outcome = SyncCaught.outcome]
    ELSE [NoRun EXCEPT !.op = "service start", !.log = "warn", !.outcome = "ok"]

\* index.ts:89-93, 1971-1974, 1996-2001  `await mcpCall(...)` outside any
\* try: what mcpCall throws leaves the action or the tool's execute
CallAction(op, resp) ==
  LET result == mcpCall(resp) IN
    IF result.kind = "throw"
      THEN [NoRun EXCEPT !.op = op, !.outcome = "rejected"]
      ELSE [NoRun EXCEPT !.op = op, !.ok = TRUE, !.outcome = "ok",
                         !.console = IF op = "belief_query" THEN "none" ELSE "printed"]

HostInvoke(op) ==
  /\ host.pc = "idle"
  /\ Len(host.done) < MaxCommands
  /\ host' = [host EXCEPT !.pc = "waiting", !.run = [NoRun EXCEPT !.op = op]]
  /\ UNCHANGED <<hookVars, recallVars, xcall, captureVars, renderVars, rpc, archive, http>>

HostSettle(resp) ==
  /\ host.pc = "waiting"
  /\ LET run == CASE host.run.op = "valence status" -> StatusAction(healthCheck(resp))
                   [] host.run.op = "service start" -> ServiceStart(healthCheck(resp))
                   [] OTHER -> CallAction(host.run.op, resp) IN
       host' = [host EXCEPT !.pc = "idle", !.run = [run EXCEPT !.net = resp.net],
                            !.done = Append(@, [run EXCEPT !.net = resp.net])]
  /\ UNCHANGED <<hookVars, recallVars, xcall, captureVars, renderVars, rpc, archive, http>>

NextHost ==
  \/ \E op \in HealthOps \cup CallOps : HostInvoke(op)
  \/ \E resp \in HostResponses : HostSettle(resp)

SpecHost == InitTransport /\ [][NextHost]_vars


(***************************************************************************)
(* shouldCapture (index.ts:2031-2046) on texts put together from pieces    *)
(***************************************************************************)
MaxPieces == 3

\* the pieces a text is made of; x{n} is n letters x, none of them part of a
\* trigger, and [fence] is the code fence of three backquotes
Pieces ==
  {"<relevant-knowledge>", "<b>", "</b>", "[fence]", "REMEMBER", "never", "my ", " is",
   "x", "x{6}", "x{6}\nx{6}", "x{492}"}

\* String.length of a piece
Chars(p) ==
  CASE p = "<relevant-knowledge>" -> 20
    [] p = "<b>" -> 3
    [] p = "</b>" -> 4
    [] p = "[fence]" -> 3
    [] p = "REMEMBER" -> 8
    [] p = "never" -> 5
    [] p = "my " -> 3
    [] p = " is" -> 3
    [] p = "x" -> 1
    [] p = "x{6}" -> 6
    [] p = "x{6}\nx{6}" -> 13
    [] p = "x{492}" -> 492

RECURSIVE TextLength(_)
TextLength(text) == IF text = << >> THEN 0 ELSE Chars(Head(text)) + TextLength(Tail(text))

\* text.includes(s), text.startsWith(s): no piece but the ones named holds
\* the characters sought, and none of them forms across two pieces
Includes(text, holders) == \E i \in DOMAIN text : text[i] \in holders
StartsWith(text, holders) == text # << >> /\ text[1] \in holders

\* the flag i: the letters of a piece in lower case
LowerCase(p) == IF p = "REMEMBER" THEN "remember" ELSE p

\* index.ts:2031-2038  the patterns, each by its alternatives
CAPTURE_TRIGGERS ==
  << {"remember", "don't forget", "keep in mind"},
     {"i prefer", "i like", "i want", "i need", "i hate"},
     {"we decided", "decision:", "chose to", "going with"},
     {"my .+ is", "is my"},
     {"always", "never", "important to note"},
     {"key takeaway", "lesson learned", "note to self"} >>

\* r.test(text) for one alternative: the words themselves, or for `my .+ is`
\* the two ends with one character or more between them, none a line break
TestAlternative(alt, text) ==
  IF alt = "my .+ is"
    THEN \E i, j \in DOMAIN text :
           /\ i + 1 < j
           /\ text[i] = "my "
           /\ text[j] = " is"
           /\ \A k \in (i + 1)..(j - 1) : text[k] # "x{6}\nx{6}"
    ELSE \E i \in DOMAIN text : LowerCase(text[i]) = alt

Test(r, text) == \E alt \in r : TestAlternative(alt, text)

\* the same with both limits one character too narrow
shouldCaptureExclusive(text) ==
  IF TextLength(text) <= 15 \/ TextLength(text) >= 500 THEN FALSE
  ELSE IF Includes(text, {"<relevant-knowledge>"}) THEN FALSE
  ELSE IF StartsWith(text, {"<relevant-knowledge>", "<b>", "</b>"})
            /\ Includes(text, {"</b>"}) THEN FALSE
  ELSE IF Includes(text, {"[fence]"}) THEN FALSE
  ELSE \E i \in DOMAIN CAPTURE_TRIGGERS : Test(CAPTURE_TRIGGERS[i], text)

\* index.ts:2040-2046  shouldCapture
shouldCapture(text) ==
  IF TextLength(text) < 15 \/ TextLength(text) > 500 THEN FALSE
  ELSE IF Includes(text, {"<relevant-knowledge>"}) THEN FALSE
  ELSE IF StartsWith(text, {"<relevant-knowledge>", "<b>", "</b>"})
            /\ Includes(text, {"</b>"}) THEN FALSE
  ELSE IF Includes(text, {"[fence]"}) THEN FALSE
  ELSE \E i \in DOMAIN CAPTURE_TRIGGERS : Test(CAPTURE_TRIGGERS[i], text)

RECURSIVE TextsUpTo(_)
TextsUpTo(n) ==
  IF n = 0 THEN {<< >>}
  ELSE LET shorter == TextsUpTo(n - 1) IN
         shorter \cup {Append(t, p) : t \in shorter, p \in Pieces}

InitFilter ==
  /\ backend = "mcp"
  /\ autoCompileOnFlush = TRUE
  /\ sessionMap = << >>
  /\ nextId = 1
  /\ hist = [k \in Keys |-> NoHist]
  /\ currentSessionId = NoKey
  /\ currentChannel = "unknown"
  /\ pending = {}
  /\ obs = NoObs
  /\ autoRecall = TRUE
  /\ memoryMdAbsPath = TRUE
  /\ file = NoFile
  /\ RecallIdle
  /\ xcall = IdleCall
  /\ cap = IdleCapture
  /\ probe \in {[NoProbe EXCEPT !.pc = "given", !.text = t] : t \in TextsUpTo(MaxPieces)}
  /\ render = NoRender
  /\ runs = NoRuns
  /\ ClientIdle

\* index.ts:1745  texts.filter((t) => shouldCapture(t)), one text of it
FilterText ==
  /\ probe.pc = "given"
  /\ probe' = [probe EXCEPT !.pc = "answered", !.verdict = shouldCapture(probe.text)]
  /\ UNCHANGED <<hookVars, recallVars, xcall, cap, renderVars, clientVars>>

NextFilter == FilterText

SpecFilter == InitFilter /\ [][NextFilter]_vars


(***************************************************************************)
(* Two syncMemoryMd runs next to each other (index.ts:1869-1911): each     *)
(* run fetches, renders and calls writeFile on the same path               *)
(***************************************************************************)
\* the `now` of the rendering of each run
RunStamp(run) == IF run = "after_compaction" THEN 1 ELSE 2

\* index.ts:1874-1888  the list calls of the run settle and the snapshot is
\* rendered; a failed listBeliefs ends the run (index.ts:1896)
RunRender(run, r, nb, np) ==
  /\ runs[run].pc = "idle"
  /\ runs' = IF r = "throw"
               THEN [runs EXCEPT ![run].pc = "done"]
               ELSE [runs EXCEPT ![run].pc = "open",
                                 ![run].md = generateMemoryMd(Repeat(SyncBelief, nb),
                                                              Repeat(SyncPattern, np),
                                                              RunStamp(run))]
  /\ UNCHANGED <<hookVars, xcall, captureVars, render, clientVars, autoRecall, memoryMdAbsPath, file, turn, sync, clock, robs>>

\* index.ts:1891  writeFile opens the path with flag "w": the file is
\* emptied, and the run holds a descriptor of its own at offset 0
RunOpen(run) ==
  /\ runs[run].pc = "open"
  /\ file' = OpenForWrite(file)
  /\ runs' = [runs EXCEPT ![run].pc = "writing"]
  /\ UNCHANGED <<hookVars, xcall, captureVars, render, clientVars, autoRecall, memoryMdAbsPath, turn, sync, clock, robs>>

\* write(fd, chunk) at the offset of the descriptor: what the file holds
\* there is overwritten, a gap before it reads as zero bytes
WriteAt(data, offset, chunk) ==
  LET end == offset + Len(chunk)
      size == IF Len(data) > end THEN Len(data) ELSE end IN
    [i \in 1..size |-> IF i > offset /\ i <= end THEN chunk[i - offset]
                       ELSE IF i <= Len(data) THEN data[i]
                       ELSE "\\0"]

\* one write call of the run, WriteChunk tokens of its text; after the last
\* one the descriptor is closed and the run is done
RunWrite(run) ==
  /\ runs[run].pc = "writing"
  /\ LET n == Min(WriteChunk, Len(runs[run].md) - runs[run].written) IN
       /\ file' = FileOf(WriteAt(file.data, runs[run].written,
                                 SubSeq(runs[run].md, runs[run].written + 1,
                                        runs[run].written + n)))
       /\ runs' = IF runs[run].written + n = Len(runs[run].md)
                    THEN [runs EXCEPT ![run].pc = "done", ![run].written = @ + n]
                    ELSE [runs EXCEPT ![run].written = @ + n]
  /\ UNCHANGED <<hookVars, xcall, captureVars, render, clientVars, autoRecall, memoryMdAbsPath, turn, sync, clock, robs>>

NextOverlap ==
  \/ \E run \in SyncRuns, r \in {"ok", "throw"}, nb \in 0..MaxItems, np \in 0..MaxItems :
       RunRender(run, r, nb, np)
  \/ \E run \in SyncRuns : RunOpen(run)
  \/ \E run \in SyncRuns : RunWrite(run)

SpecOverlap == InitRecall /\ [][NextOverlap]_vars


(***************************************************************************)
(* The belief_archive tool (index.ts:706-796)                              *)
(***************************************************************************)
MaxCandidates == 3
SimThreshold == 90       \* index.ts:751  topSimilarity > 0.9, in hundredths

\* a parameter that is missing and one that is the empty string are both
\* falsy; "" stands for the two
ParamValues(given) == {"", given}

\* what belief_search returns: candidates with an id and, some of them, a
\* similarity (in hundredths)
Similarities == {50, SimThreshold, SimThreshold + 1}
Candidate(id, has, sim) == [id |-> id, has |-> has, similarity |-> sim]
CandidatesAt(i) ==
  {Candidate(ToString(i), TRUE, sim) : sim \in Similarities}
    \cup {Candidate(ToString(i), FALSE, 0)}
RECURSIVE CandidateLists(_)
CandidateLists(n) ==
  IF n = 0 THEN {<< >>}
  ELSE LET shorter == CandidateLists(n - 1) IN
         shorter \cup {Append(l, c) : l \in {x \in shorter : Len(x) = n - 1},
                                        c \in CandidatesAt(n)}

\* index.ts:748  (topMatch.similarity as number) ?? 0
TopSimilarity(beliefs) == IF beliefs[1].has THEN beliefs[1].similarity ELSE 0

\* the same test with the threshold itself let through
AutoArchiveFromThreshold(beliefs) == Len(beliefs) = 1 \/ TopSimilarity(beliefs) >= SimThreshold

\* index.ts:751  beliefs.length === 1 || topSimilarity > 0.9
AutoArchive(beliefs) == Len(beliefs) = 1 \/ TopSimilarity(beliefs) > SimThreshold

ToolCall(op, id) == [op |-> op, id |-> id]
Ids(beliefs) == [i \in DOMAIN beliefs |-> beliefs[i].id]

\* index.ts:718-729, 731-736, 786-789  execute runs to its first await, or to
\* its end when neither parameter is given
ArchiveExecute(belief_id, query) ==
  /\ archive.pc \in {"idle", "done"}
  /\ archive' =
       IF belief_id # ""
         THEN [NoArchive EXCEPT !.pc = "supersede", !.belief_id = belief_id, !.query = query,
                                !.calls = <<ToolCall("belief_supersede", belief_id)>>]
       ELSE IF query # ""
         THEN [NoArchive EXCEPT !.pc = "search", !.query = query,
                                !.calls = <<ToolCall("belief_search", "")>>]
       ELSE [NoArchive EXCEPT !.pc = "done", !.outcome = "ok",
                              !.reply = [action |-> "missing_param", ids |-> << >>]]
  /\ UNCHANGED <<hookVars, recallVars, xcall, captureVars, renderVars, rpc, host, http>>

\* index.ts:731-784  the search settles
ArchiveSearchReturn(r, beliefs) ==
  /\ archive.pc = "search"
  /\ archive' =
       IF r = "throw"
         THEN [archive EXCEPT !.pc = "done", !.outcome = "rejected"]
       ELSE IF Len(beliefs) = 0
         THEN [archive EXCEPT !.pc = "done", !.searched = TRUE, !.beliefs = beliefs,
                              !.outcome = "ok",
                              !.reply = [action |-> "not_found", ids |-> << >>]]
       ELSE IF AutoArchive(beliefs)
         THEN [archive EXCEPT !.pc = "supersede", !.searched = TRUE, !.beliefs = beliefs,
                              !.calls = Append(@, ToolCall("belief_supersede", beliefs[1].id))]
       ELSE [archive EXCEPT !.pc = "done", !.searched = TRUE, !.beliefs = beliefs,
                            !.outcome = "ok",
                            !.reply = [action |-> "candidates", ids |-> Ids(beliefs)]]
  /\ UNCHANGED <<hookVars, recallVars, xcall, captureVars, renderVars, rpc, host, http>>

\* index.ts:720-728, 752-766  the supersede call settles
ArchiveSupersedeReturn(r) ==
  /\ archive.pc = "supersede"
  /\ archive' =
       IF r = "throw"
         THEN [archive EXCEPT !.pc = "done", !.outcome = "rejected"]
         ELSE [archive EXCEPT !.pc = "done", !.outcome = "ok",
                              !.reply = [action |-> "archived",
                                         ids |-> <<archive.calls[Len(archive.calls)].id>>]]
  /\ UNCHANGED <<hookVars, recallVars, xcall, captureVars, renderVars, rpc, host, http>>

NextArchive ==
  \/ \E belief_id \in ParamValues("9"), query \in ParamValues("q") :
       ArchiveExecute(belief_id, query)
  \/ \E r \in {"ok", "throw"} :
       \E beliefs \in (IF r = "ok" THEN CandidateLists(MaxCandidates) ELSE {<< >>}) :
         ArchiveSearchReturn(r, beliefs)
  \/ \E r \in {"ok", "throw"} : ArchiveSupersedeReturn(r)

SpecArchive == InitTransport /\ [][NextArchive]_vars


(***************************************************************************)
(* The /valence/inference route (inference.ts:24-56)                       *)
(***************************************************************************)
MaxHttpRequests == 2

\* request bodies as the chunks the stream delivers: JSON objects with and
\* without a prompt, JSON that is no object, text that is no JSON, nothing
Bodies ==
  {<<"{\"prompt\":\"p\"}">>, <<"{\"prompt\":\"p\",", "\"system\":\"s\"}">>,
   <<"{\"prompt\":\"\"}">>, <<"{}">>, <<"null">>, <<"{\"prompt\":">>, << >>}

\* inference.ts:38  JSON.parse(Buffer.concat(chunks).toString("utf-8")):
\* "object" with or without a prompt, "null", or a SyntaxError
ParseBody(body) ==
  CASE body \in {<<"{\"prompt\":\"p\"}">>, <<"{\"prompt\":\"p\",", "\"system\":\"s\"}">>} ->
         [kind |-> "object", prompt |-> "p"]
    [] body \in {<<"{\"prompt\":\"\"}">>, <<"{}">>} -> [kind |-> "object", prompt |-> ""]
    [] body = <<"null">> -> [kind |-> "null", prompt |-> ""]
    [] OTHER -> [kind |-> "SyntaxError", prompt |-> ""]

Respond(req, status) == [req EXCEPT !.responses = Append(@, status), !.outcome = "ok"]

\* the promise of the handler rejects: no statement after the throw runs
Rejects(req) == [req EXCEPT !.outcome = "rejected"]

Finish(req) == [http EXCEPT !.pc = "idle", !.req = req, !.served = Append(@, req)]

\* inference.ts:27-31  a request arrives; a method other than POST is
\* answered at once, else the handler waits for the body
InferenceRequestArrives(method, body) ==
  /\ http.pc = "idle"
  /\ Len(http.served) < MaxHttpRequests
  /\ LET req == [NoRequest EXCEPT !.method = method, !.body = body] IN
       http' = IF method # "POST" THEN Finish(Respond(req, 405))
               ELSE [http EXCEPT !.pc = "body", !.req = req]
  /\ UNCHANGED <<hookVars, recallVars, xcall, captureVars, renderVars, rpc, host, archive>>

\* inference.ts:34-44  the body has been read (or the stream failed), is
\* parsed and looked at
InferenceBodyRead(streamOk) ==
  /\ http.pc = "body"
  /\ LET parsed == ParseBody(http.req.body) IN
       http' = IF ~streamOk \/ parsed.kind # "object" THEN Finish(Rejects(http.req))
               ELSE IF parsed.prompt = "" THEN Finish(Respond(http.req, 400))
               ELSE [http EXCEPT !.pc = "model"]
  /\ UNCHANGED <<hookVars, recallVars, xcall, captureVars, renderVars, rpc, host, archive>>

\* inference.ts:46-54  callModel settles
InferenceModelReturn(r) ==
  /\ http.pc = "model"
  /\ http' = IF r = "throw"
               THEN Finish([Respond(http.req, 502) EXCEPT !.warned = TRUE])
               ELSE Finish(Respond(http.req, 200))
  /\ UNCHANGED <<hookVars, recallVars, xcall, captureVars, renderVars, rpc, host, archive>>

NextInference ==
  \/ \E method \in {"POST", "GET"}, body \in Bodies : InferenceRequestArrives(method, body)
  \/ \E streamOk \in BOOLEAN : InferenceBodyRead(streamOk)
  \/ \E r \in {"ok", "throw"} : InferenceModelReturn(r)

SpecInference == InitTransport /\ [][NextInference]_vars


Next == NextMcp \/ NextCli \/ NextRest

Spec == Init /\ [][Next]_vars

\* ======================================================================
\* Session tracker (index.ts)
\* ======================================================================
EntriesOf(k) == {i \in 1..Len(sessionMap) : sessionMap[i].key = k}

\* C1: every append (exchange_add) issued for a message event of session K
\* targets the remote session that was created for K, never the remote
\* session of another key.
C1_AppendTargetsOwnSession ==
  obs.op = "exchange_add" => obs.sid.for = obs.key

\* C2: an append or finalize event delivered for a key that has no mapping
\* is a no-op: the step issues no remote call, leaves the map alone and the
\* handler completes normally.
C2_UnknownKeyIsNoOp ==
  (obs.step = "deliver" /\ obs.hook \in {"message", "session_end"} /\ ~obs.mapped)
    => (obs.op = "none" /\ obs.outcome = "ok")

\* C3: once the session_end handler of a mapped key K has completed, K has
\* no mapping, whatever the remote finalize call returned; and a
\* session_start(K) that then obtains an id records exactly that id.
C3_FinalizeAlwaysRemoves ==
  /\ (obs.hook = "session_end" /\ obs.step = "return") => ~MapHas(sessionMap, obs.key)
  /\ (obs.hook = "session_start" /\ obs.step = "return" /\ obs.sid # NoId)
       => MapGet(sessionMap, obs.key) = obs.sid

C6_HandlersNeverReject ==
  /\ obs.outcome # "rejected"
  /\ obs.threw => (obs.outcome = "ok" /\ obs.warned)

\* a handler of each variant has completed after its remote call failed or
\* its payload could not be serialised
C6_Witness ==
  /\ obs.threw /\ obs.outcome = "ok"
  /\ obs.hook \in {"session_end", "message", "message_received", "subagent_spawned"}

\* C5: once session_end for key K has completed, a later message event for
\* K issues no append until a new session_start(K) is delivered.
C5_NoAppendAfterFinalize ==
  obs.op = "exchange_add" => ~obs.stale

\* ======================================================================
\* Recall and snapshot claims (SpecRecall)
\* ======================================================================
Contains(seq, x) == \E i \in DOMAIN seq : seq[i] = x

\* the handler of a turn has returned after its recall call failed
RecallFailedDone == robs.step = "done" /\ robs.recall \in {"throw", "malformed"}

C8_ReadOnlyAfterFailure ==
  /\ \A k \in Keys : turn[k].pc = "read" => turn[k].recall \in {"throw", "malformed"}
  /\ robs.read => robs.recall \in {"throw", "malformed"}
  /\ (robs.step = "done" /\ robs.recall \in {"empty", "nobeliefs"}) =>
       (~robs.read /\ robs.result = [systemPrompt |-> <<valenceSystemPrompt>>])

\* a recall returned an empty list while a snapshot with text was on disk
C8_Witness ==
  /\ robs.step = "done" /\ robs.recall = "empty" /\ ~robs.read
  /\ memoryMdAbsPath /\ file.exists /\ Len(Trim(file.data)) > 0

\* C9: a fallback read that runs while syncMemoryMd is writing sees the
\* complete previous content or the complete new content, never an empty or
\* partly written file.
C9_SnapshotWriteAtomic ==
  (robs.read /\ sync.pc = "writing") => (robs.seen = sync.old \/ robs.seen = FileOf(sync.md))

\* the last sync that began has fetched, rendered and written to the end
SyncSucceeded == sync.pc = "idle" /\ sync.md # << >>

\* C18: after a successful sync the snapshot file holds exactly the rendering
\* of the beliefs and patterns that sync fetched: the file is replaced, never
\* appended to, and no timestamp of an earlier rendering is left in it.
C18_SnapshotIsLatestRendering ==
  SyncSucceeded =>
    /\ file = FileOf(generateMemoryMd(sync.beliefs, sync.patterns, clock))
    /\ \A t \in 0..(clock - 1) : \A i \in DOMAIN file.data : file.data[i] # ToString(t)

\* a second sync has replaced a snapshot that held more entries than it fetched
C18_Witness ==
  /\ SyncSucceeded
  /\ clock = 2
  /\ sync.old.exists
  /\ Len(sync.old.data) > Len(file.data)

\* C21: when the belief fetch of a sync fails, that step leaves the snapshot
\* file as it was and ends the sync (no write can follow), logs a warning,
\* and the hook that awaits the sync resumes normally.
C21_FailedFetchWritesNothing ==
  [][(sync.pc = "list" /\ sync'.pc = "idle") =>
       /\ file' = file
       /\ sync' = NoSync
       /\ robs'.step = "listBeliefs" /\ robs'.log = "warn" /\ robs'.outcome = "ok"]_vars

\* the fetch of a later sync failed over the snapshot an earlier sync wrote
C21_Witness ==
  /\ robs.step = "listBeliefs" /\ robs.log = "warn"
  /\ sync = NoSync
  /\ clock >= 1 /\ file.exists /\ Len(file.data) > 0

\* ======================================================================
\* Transport claims (SpecTransport)
\* ======================================================================
\* the call under way has returned after its deadline passed unanswered
ReturnedAtDeadline == xcall.pc = "returned" /\ xcall.elapsed >= xcall.timeout

\* C10: every transport call returns to its caller, and a call whose peer
\* never answers resolves, once the deadline has passed, to a failure of kind
\* Timeout.
C10_TimeoutFailureKind ==
  ReturnedAtDeadline => (~xcall.result.ok /\ xcall.result.kind = "Timeout")

\* C10, the part that holds: a call under way returns, and after an
\* unanswered deadline what it returns is a failure.
C10_EventuallyReturns == (xcall.pc \in {"running", "killed"}) ~> (xcall.pc = "returned")

C10_FailureAtDeadline == ReturnedAtDeadline => ~xcall.result.ok

\* ======================================================================
\* Flush and subagent claims (Spec)
\* ======================================================================
\* C11: a before_compaction event for session S issues a flush call for S;
\* with compile-on-flush enabled a compile call follows, issued when the flush
\* call has returned and not before; with compile-on-flush disabled no compile
\* call is issued.
C11_FlushThenCompile ==
  backend = "cli" =>
    /\ (obs.hook = "before_compaction" /\ obs.step = "deliver" /\ obs.key # NoKey) =>
         (obs.op = "flush" /\ obs.target = obs.key)
    /\ obs.op = "compile" =>
         (autoCompileOnFlush /\ obs.step = "resume" /\ obs.result \in {"ok", "fail"})
    /\ (obs.hook = "before_compaction" /\ obs.step = "resume") => obs.op = "compile"

\* C12: a subagent_spawned event whose parent session has no active remote
\* session still issues the create call for the child, without a parent
\* reference, and the handler does not fail.
C12_OrphanSpawnOmitsParent ==
  (obs.hook = "subagent_spawned" /\ obs.step = "deliver"
     /\ (obs.key = NoKey \/ hist[obs.key].starts = 0)) =>
    (obs.op = "start" /\ obs.parent = NoKey /\ obs.outcome # "rejected")

\* C13: the parent reference sent with the create call of a child spawned by
\* session P is the id of P when P has a remote session, and is never the id of
\* another session.
C13_ParentIsSpawningSession ==
  (obs.hook = "subagent_spawned" /\ obs.step = "deliver" /\ obs.key # NoKey) =>
    /\ obs.parent \in {obs.key, NoKey}
    /\ hist[obs.key].starts = 1 => obs.parent = obs.key

\* ======================================================================
\* Recall rendering claims (SpecInject)
\* ======================================================================
\* String.prototype.split("\n") on a text of tokens
RECURSIVE SplitLines(_, _)
SplitLines(text, line) ==
  IF \A i \in DOMAIN text : text[i] # "\n" THEN <<line \o text>>
  ELSE LET brk == CHOOSE i \in DOMAIN text :
                    text[i] = "\n" /\ \A j \in 1..(i - 1) : text[j] # "\n" IN
         <<line \o SubSeq(text, 1, brk - 1)>>
           \o SplitLines(SubSeq(text, brk + 1, Len(text)), << >>)

\* the lines of a text that are bullet entries
BulletLines(text) == SelectSeq(SplitLines(text, << >>), LAMBDA l : l # << >> /\ Head(l) = "-")

\* C14: when recall returns n >= 1 items, the injected context holds exactly
\* n bullet entries, the i-th being the entry of the i-th returned item.
C14_OneBulletPerItemInOrder ==
  (robs.step = "done" /\ robs.recall = "beliefs") =>
    LET bullets == BulletLines(robs.result.systemPrompt) IN
      /\ Len(robs.items) >= 1
      /\ Len(bullets) = Len(robs.items)
      /\ \A i \in 1..Len(bullets) :
           /\ bullets[i][Len(bullets[i])] = robs.items[i].content
           /\ bullets[i][3] = (IF robs.items[i].conf = NoConf THEN "?"
                               ELSE ToString(robs.items[i].conf))

\* two different items were returned and injected
C14_Witness ==
  /\ robs.step = "done" /\ robs.recall = "beliefs"
  /\ Len(robs.items) = 2 /\ robs.items[1] # robs.items[2]
  /\ Len(BulletLines(robs.result.systemPrompt)) = 2

\* ======================================================================
\* Failure handling claims (Spec)
\* ======================================================================
\* C15: whenever the remote call of a lifecycle handler has failed (the call
\* rejected, or resolved to success: false), the handler logs a warning.
C15_FailureIsWarned == obs.result \in {"throw", "fail"} => obs.warned

C17_CaptureBoundedAndIndependent ==
  /\ Cardinality(cap.attempted) <= 3
  /\ cap.failed \subseteq cap.attempted
  /\ (cap.pc = "done" /\ cap.attempted # {}) =>
       cap.attempted = 1..(IF cap.n < 3 THEN cap.n ELSE 3)

\* a turn with more than 3 candidates ended after the first and the second
\* candidate had failed
C17_Witness ==
  /\ cap.pc = "done" /\ cap.n > 3
  /\ {1, 2} \subseteq cap.failed /\ 3 \in cap.attempted /\ cap.captured = 1

\* ======================================================================
\* Snapshot document claims (SpecRender)
\* ======================================================================
\* the lines of a document that are section headings, belief entries,
\* pattern entries
IsHeading(l) == Len(l) = 2 /\ l[1] = "###"
IsBeliefEntry(l) == Len(l) = 5 /\ l[1] = "-"
IsPatternEntry(l) == Len(l) = 8 /\ l[1] = "-" /\ l[2] = "["
Headings(lines) == {i \in DOMAIN lines : IsHeading(lines[i])}
BeliefEntries(lines) == {i \in DOMAIN lines : IsBeliefEntry(lines[i])}
PatternEntries(lines) == {i \in DOMAIN lines : IsPatternEntry(lines[i])}

\* the section each line stands in: the nearest heading above it
Sections(lines) ==
  LET hs == Headings(lines) IN
    [i \in DOMAIN lines |->
       LET above == {h \in hs : h < i} IN
         IF above = {} THEN "" ELSE lines[CHOOSE h \in above : \A g \in above : g <= h][2]]

\* the confidence a belief entry shows, read back as a number ("?" is 0)
ShownConf(l) == IF l[4] = "?" THEN 0 ELSE CHOOSE n \in 0..100 : ToString(n) = l[4]

\* what identifies an input belief in the document: section, content and
\* shown confidence
Expected(b) == <<IF b.domain = NoDomain THEN "general" ELSE b.domain, b.content,
                 IF b.conf = NoConf THEN "?" ELSE ToString(b.conf)>>

\* C19: the document lists every input belief exactly once under the section
\* of its top-level domain ("general" when it has none); the sections are
\* distinct, in alphabetical order with "general" last; within a section the
\* shown confidences never increase (a missing confidence counts as 0).
C19_GroupedSortedExactlyOnce ==
  render.pc = "rendered" =>
    LET lines == SplitLines(render.md, << >>)
        section == Sections(lines)
        entries == BeliefEntries(lines)
        shown == [i \in entries |-> <<section[i], lines[i][2], lines[i][4]>>]
        conf == [i \in entries |-> ShownConf(lines[i])]
        expected == [k \in DOMAIN render.beliefs |-> Expected(render.beliefs[k])]
        headings == Headings(lines)
    IN
      /\ Cardinality(entries) = Len(render.beliefs)
      /\ \A k \in DOMAIN expected :
           Cardinality({i \in entries : shown[i] = expected[k]})
             = Cardinality({j \in DOMAIN expected : expected[j] = expected[k]})
      /\ \A g, h \in headings :
           g < h => /\ lines[g][2] # lines[h][2]
                    /\ lines[g][2] # "general"
                    /\ lines[h][2] = "general" \/ Rank(lines[g][2]) < Rank(lines[h][2])
      /\ \A i, j \in entries :
           (i < j /\ section[i] = section[j]) => conf[i] >= conf[j]

\* three beliefs were rendered: one under a domain that sorts after
\* "general", two without a domain that arrived in increasing confidence
C19_Witness ==
  /\ render.pc = "rendered"
  /\ Len(render.beliefs) = 3
  /\ \E k \in DOMAIN render.beliefs : render.beliefs[k].domain = "zeta"
  /\ \E i, j \in DOMAIN render.beliefs :
       /\ i < j
       /\ render.beliefs[i].domain = NoDomain /\ render.beliefs[j].domain = NoDomain
       /\ render.beliefs[i].conf = NoConf /\ render.beliefs[j].conf = 90

\* C20: the document of one sync holds at most 100 belief entries and at
\* most 30 pattern entries, whatever the remote answered.
C20_EntriesWithinMaximum ==
  render.pc = "rendered" =>
    LET lines == SplitLines(render.md, << >>) IN
      /\ Cardinality(BeliefEntries(lines)) <= SyncBeliefLimit
      /\ Cardinality(PatternEntries(lines)) <= SyncPatternLimit

\* ======================================================================
\* MCP client claims (SpecMcpCall, SpecMcpResult)
\* ======================================================================
\* C22: mcpCall returns a value only from a response that carries the
\* identifier of the request the call sent.
C22_ResultOnlyFromOwnResponse ==
  rpc.settled.outcome.kind = "return" => rpc.settled.resp.id = rpc.settled.id

\* C23: the identifiers are strictly increasing in the order of the calls,
\* and no two calls in flight carry the same identifier.
C23_RequestIdsIncreaseAndDiffer ==
  /\ \A i, j \in DOMAIN rpc.issued : i < j => rpc.issued[i] < rpc.issued[j]
  /\ \A c, d \in Callers :
       (c # d /\ rpc.calls[c].pc = "sent" /\ rpc.calls[d].pc = "sent") =>
         rpc.calls[c].id # rpc.calls[d].id

\* two calls are in flight after an earlier call has settled
C23_Witness ==
  /\ Len(rpc.issued) = 3
  /\ \A c \in Callers : rpc.calls[c].pc = "sent"
  /\ rpc.calls["c1"].id = 2 /\ rpc.calls["c2"].id = 3

\* the text items of a response, and whether their joined text is one
\* JSON value
TextItems(resp) == {i \in DOMAIN resp.content : resp.content[i].type = "text"}
IsJsonItem(item) == item.type = "text" /\ item.text \in JsonTexts
IsBlankItem(item) == item.type = "text" /\ item.text = ""
OneJsonValue(resp) ==
  /\ \E i \in DOMAIN resp.content : IsJsonItem(resp.content[i])
  /\ \A i, j \in TextItems(resp) :
       (IsJsonItem(resp.content[i]) /\ i # j) => IsBlankItem(resp.content[j])

\* C24: a non-2xx status, an error field and a result flagged isError each
\* make mcpCall fail; from a successful response it returns the parsed JSON
\* of the text content, an object wrapping the raw text when that is not
\* JSON (it never throws on the parse), and an empty object when there is no
\* text content.
C24_ResponseMapping ==
  LET resp == rpc.settled.resp
      out == rpc.settled.outcome
      successful == /\ resp.net = "ok" /\ resp.status = 200 /\ resp.json
                    /\ ~resp.error /\ ~resp.isError
  IN rpc.settled.caller # "none" =>
       /\ (resp.net = "ok" /\ resp.status # 200) => out.kind = "throw"
       /\ (resp.net = "ok" /\ resp.status = 200 /\ resp.json /\ (resp.error \/ resp.isError)) =>
            out.kind = "throw"
       /\ successful =>
            /\ out.kind = "return"
            /\ out.value.type = "object"
            /\ TextItems(resp) = {} => out.value.data = << >>
            /\ (TextItems(resp) # {} /\ OneJsonValue(resp)) => out.value.data = <<"a", "1">>
            /\ (TextItems(resp) # {} /\ ~OneJsonValue(resp)) =>
                 /\ Len(out.value.data) >= 1 /\ out.value.data[1] = "text"
                 /\ \A i \in TextItems(resp) :
                      resp.content[i].text # "" =>
                        \E k \in 2..Len(out.value.data) : out.value.data[k] = resp.content[i].text

\* a successful response whose two text items are JSON each, but not joined
C24_Witness ==
  /\ rpc.settled.outcome.kind = "return"
  /\ Len(rpc.settled.resp.content) = 2
  /\ \A i \in 1..2 : IsJsonItem(rpc.settled.resp.content[i])
  /\ rpc.settled.outcome.value.data[1] = "text"

\* ======================================================================
\* CLI client claims (SpecExec, SpecTransport)
\* ======================================================================
\* stdout holds one JSON value, possibly with white space around it
StdoutIsJson == \E i \in DOMAIN xcall.proc.stdout :
                  /\ xcall.proc.stdout[i] \in JsonValues
                  /\ \A j \in DOMAIN xcall.proc.stdout \ {i} : xcall.proc.stdout[j] \in Whitespace

\* the data of the reply wrap the text of stdout without the white space
\* around it
WrapsTrimmedStdout ==
  /\ xcall.reply.data.type = "object"
  /\ Len(xcall.reply.data.data) >= 1 /\ xcall.reply.data.data[1] = "text"
  /\ \A k \in 2..Len(xcall.reply.data.data) : xcall.reply.data.data[k] \notin Whitespace \/ (k > 2 /\ k < Len(xcall.reply.data.data))
  /\ \A i \in DOMAIN xcall.proc.stdout :
       xcall.proc.stdout[i] \notin Whitespace =>
         \E k \in 2..Len(xcall.reply.data.data) : xcall.reply.data.data[k] = xcall.proc.stdout[i]

\* C25: when stdout parses as JSON, the parsed value is the data of the
\* reply; exit code 0 with stdout that does not parse gives a successful
\* reply whose data wrap the trimmed text; another exit with stdout that does
\* not parse gives a failure.
C25_CliReplyMapping ==
  (xcall.pc = "returned" /\ xcall.fn \in {"valenceExec", "valenceExecWithStdin"}) =>
    /\ StdoutIsJson =>
         /\ xcall.reply.data.type \in {"object", "null"}
         /\ xcall.reply.data.type = "null" <=> (\E i \in DOMAIN xcall.proc.stdout : xcall.proc.stdout[i] = "null")
         /\ xcall.reply.data.type = "object" => xcall.reply.data.data[1] \in {"a", "error"}
    /\ (xcall.proc.code = "0" /\ ~StdoutIsJson) => (xcall.reply.success /\ WrapsTrimmedStdout)
    /\ (xcall.proc.code # "0" /\ ~StdoutIsJson) => ~xcall.reply.success

\* C30: a CLI call runs with 30 seconds when its caller gives no timeout and
\* with the caller's timeout otherwise: 120 seconds for the compile call of
\* the flush, 5 seconds for the health check.
C30_CliTimeouts ==
  (xcall.pc # "idle" /\ xcall.fn \in ExecFns) =>
    /\ xcall.opt = 0 => xcall.timeout = 30000
    /\ xcall.opt # 0 => xcall.timeout = xcall.opt
    /\ xcall.fn = "healthCheck(cli)" => xcall.timeout = 5000
    /\ xcall.fn # "healthCheck(cli)" => xcall.opt \in {0, 120000}

\* the compile call runs past the default deadline
C30_Witness ==
  /\ xcall.fn = "valenceExec" /\ xcall.pc = "running"
  /\ xcall.opt = 120000 /\ xcall.timeout = 120000
  /\ xcall.elapsed > 30000

\* C26: of the operations the host runs, only `valence status` lets the user
\* see that the server cannot be reached (a non-zero exit status or a
\* rejected action); status sets the exit status exactly when the health
\* check is not ok, and service start on an unreachable server logs a
\* warning, completes and sets no exit status.
C26_OnlyStatusSurfacesUnreachable ==
  \A i \in DOMAIN host.done :
    LET run == host.done[i] IN
      /\ (run.net = "reject" /\ (run.outcome = "rejected" \/ run.exitCode # 0))
            => run.op = "valence status"
      /\ run.op = "valence status" =>
            /\ run.outcome = "ok"
            /\ run.exitCode # 0 <=> ~run.ok
      /\ (run.op = "service start" /\ run.net = "reject") =>
            run.log = "warn" /\ run.outcome = "ok" /\ run.exitCode = 0 /\ ~run.synced

\* C27 (index.ts hooks): when the session_start call returns, the map changes only by the
\* entry for K with the id returned; a call that failed or returned no id
\* leaves the map as it was, and the handler completes without raising.  A
\* message or session_end event for a key whose session_start has returned
\* and left it without a mapping issues no remote call.
C27_FailedStartLeavesNoSession ==
  [][/\ (backend = "mcp" /\ obs'.hook = "session_start" /\ obs'.step = "return") =>
          /\ obs'.outcome = "ok"
          /\ obs'.sid = NoId => sessionMap' = sessionMap
          /\ obs'.sid # NoId =>
                obs'.result = "ok" /\ sessionMap' = MapSet(sessionMap, obs'.key, obs'.sid)
     /\ (/\ backend = "mcp"
         /\ obs'.step = "deliver"
         /\ obs'.hook \in {"message", "session_end"}
         /\ obs'.key \in Keys
         /\ hist[obs'.key].starts > 0
         /\ ~MapHas(sessionMap, obs'.key)) => obs'.op = "none"]_vars

\* C28: a before_agent_start that finds auto-recall disabled, or a prompt
\* that is missing, empty or shorter than 5 characters, has returned the
\* base system prompt alone, with no remote call issued and no snapshot
\* file read.
C28_GatedRecallDoesNothing ==
  (robs.began /\ (~autoRecall \/ robs.prompt < 5)) =>
    /\ robs.step = "done"
    /\ robs.recall = "none"
    /\ ~robs.read
    /\ robs.result = [systemPrompt |-> <<valenceSystemPrompt>>]
    /\ turn[robs.turn].pc = "idle"

C28_Witness ==
  /\ robs.began /\ autoRecall /\ robs.prompt = 4 /\ robs.step = "done"
  /\ file.exists /\ memoryMdAbsPath
  /\ \E k \in Keys : turn[k].pc = "read"

\* C29: shouldCapture answers true exactly for a text of 15 to 500
\* characters that holds no <relevant-knowledge> tag, is not markup (begins
\* with '<' and holds '</'), holds no code fence and matches one of the
\* trigger patterns or more.
TextSize == TextLength(probe.text)
HasKnowledgeTag == \E i \in DOMAIN probe.text : probe.text[i] = "<relevant-knowledge>"
IsMarkup ==
  /\ Len(probe.text) > 0
  /\ probe.text[1] \in {"<relevant-knowledge>", "<b>", "</b>"}
  /\ \E i \in DOMAIN probe.text : probe.text[i] = "</b>"
HasCodeFence == \E i \in DOMAIN probe.text : probe.text[i] = "[fence]"
MatchesTrigger ==
  \/ \E i \in DOMAIN probe.text : probe.text[i] \in {"REMEMBER", "never"}
  \/ \E i, j \in DOMAIN probe.text :
       /\ probe.text[i] = "my " /\ probe.text[j] = " is" /\ j - i >= 2
       /\ \A k \in DOMAIN probe.text : (i < k /\ k < j) => probe.text[k] # "x{6}\nx{6}"
C29_ShouldCaptureExactly ==
  probe.pc = "answered" =>
    (probe.verdict <=>
       /\ TextSize >= 15 /\ TextSize <= 500
       /\ ~HasKnowledgeTag
       /\ ~IsMarkup
       /\ ~HasCodeFence
       /\ MatchesTrigger)

C29_Witness ==
  /\ probe.pc = "answered" /\ probe.verdict
  /\ TextSize = 500 /\ probe.text[1] = "REMEMBER"

\* C31 (index.ts hooks): when session_end was the last of the session_start
\* and session_end events delivered for K, and no handler for K is still
\* suspended, the map holds no entry for K.
C31_EndAfterStartLeavesNoEntry ==
  \A k \in Keys :
    (/\ backend = "mcp"
     /\ hist[k].ended
     /\ \A p \in pending : p.key # k) => ~MapHas(sessionMap, k)

\* C32 (index.ts hooks): an entry K -> R leaves the session map only in the
\* step in which a session_end call for R returns successfully.
C32_NoSessionDroppedUnended ==
  [][\A i \in DOMAIN sessionMap :
       (\A j \in DOMAIN sessionMap' : sessionMap'[j] # sessionMap[i]) =>
         /\ obs'.hook = "session_end" /\ obs'.step = "return" /\ obs'.result = "ok"
         /\ \E p \in pending \ pending' :
              p.hook = "session_end" /\ p.sid = sessionMap[i].id]_vars

\* C33 (session-hooks.ts): with compile-on-flush, before_compaction issues
\* the compile call only after a flush call that succeeded, and logs
\* "flushed and compiled" only after a compile call that succeeded.
C33_CompileOnlyAfterFlushSucceeded ==
  (backend = "cli" /\ autoCompileOnFlush /\ obs.hook = "before_compaction") =>
    /\ obs.op = "compile" => obs.result = "ok"
    /\ SuccessLogged(obs) => obs.result = "ok"

\* C34 (client.ts): valenceExec resolves for every end of the subprocess and
\* never rejects, and its result says success exactly when the subprocess
\* exited with code 0 before the deadline.
C34_ExecResolvesSuccessIffCleanExit ==
  (xcall.pc = "returned" /\ xcall.fn = "valenceExec") =>
    /\ ~xcall.result.thrown
    /\ xcall.result.ok <=> (xcall.proc.code = "0" /\ xcall.elapsed < xcall.timeout)

\* C35 (index.ts hooks): a step of a session_start or session_end handler
\* for key K leaves the mapping of every other key as it was.
C35_OtherKeysUntouched ==
  [][(backend = "mcp" /\ obs'.hook \in {"session_start", "session_end"}) =>
       \A k \in Keys \ {obs'.key} :
         /\ MapHas(sessionMap', k) <=> MapHas(sessionMap, k)
         /\ MapGet(sessionMap', k) = MapGet(sessionMap, k)]_vars

\* session_end for A has removed A while B stays mapped to its own session
C35_Witness ==
  /\ backend = "mcp"
  /\ obs.hook = "session_end" /\ obs.step = "return" /\ obs.result = "ok" /\ obs.key = "A"
  /\ ~MapHas(sessionMap, "A")
  /\ MapHas(sessionMap, "B") /\ MapGet(sessionMap, "B").for = "B"

\* C36: when two sync runs that overlap have both written to the end, the
\* snapshot file holds the whole rendering of one of the two runs.
C36_OverlappingSyncsLeaveOneRendering ==
  (\A run \in SyncRuns : runs[run].pc = "done" /\ runs[run].md # << >>) =>
    \E run \in SyncRuns : file.data = runs[run].md

\* C37 as stated: with a query and no belief_id, a supersede call is issued
\* only after a search that returned one candidate or a top candidate above
\* 0.9, and every other search result is answered with the candidate list and
\* no supersede call; with neither parameter there is no remote call.
SupersedeCalls == SelectSeq(archive.calls, LAMBDA c : c.op = "belief_supersede")
ByQuery == archive.belief_id = "" /\ archive.query # ""
C37_ArchiveOnlyOnClearMatch ==
  /\ (ByQuery /\ SupersedeCalls # << >>) =>
        /\ archive.searched
        /\ Len(archive.beliefs) = 1
              \/ (archive.beliefs[1].has /\ archive.beliefs[1].similarity > 90)
  /\ (ByQuery /\ archive.searched
         /\ ~(/\ Len(archive.beliefs) >= 1
              /\ Len(archive.beliefs) = 1
                   \/ (archive.beliefs[1].has /\ archive.beliefs[1].similarity > 90))) =>
        /\ SupersedeCalls = << >>
        /\ archive.pc = "done"
        /\ archive.reply.action = "candidates"
        /\ archive.reply.ids = [i \in DOMAIN archive.beliefs |-> archive.beliefs[i].id]
  /\ (archive.pc # "idle" /\ archive.belief_id = "" /\ archive.query = "") =>
        archive.calls = << >>

\* C37 (amended): the same, but a search that returned no candidate is
\* answered with "not found" and only one that returned several candidates,
\* the first of them at 0.9 or below or without a similarity, with the
\* candidate list; the supersede call names the first candidate.
C37_ArchiveOnlyOnClearMatchOrReport ==
  /\ (ByQuery /\ SupersedeCalls # << >>) =>
        /\ archive.searched
        /\ Len(archive.beliefs) = 1
              \/ (archive.beliefs[1].has /\ archive.beliefs[1].similarity > 90)
        /\ Len(archive.calls) = 2
        /\ archive.calls[2].id = archive.beliefs[1].id
  /\ (ByQuery /\ archive.searched /\ Len(archive.beliefs) = 0) =>
        /\ SupersedeCalls = << >>
        /\ archive.pc = "done"
        /\ archive.reply.action = "not_found"
  /\ (ByQuery /\ archive.searched /\ Len(archive.beliefs) >= 2
         /\ ~(archive.beliefs[1].has /\ archive.beliefs[1].similarity > 90)) =>
        /\ SupersedeCalls = << >>
        /\ archive.pc = "done"
        /\ archive.reply.action = "candidates"
        /\ archive.reply.ids = [i \in DOMAIN archive.beliefs |-> archive.beliefs[i].id]
  /\ (archive.pc # "idle" /\ archive.belief_id = "" /\ archive.query = "") =>
        archive.calls = << >>

\* two candidates, the first exactly at 0.9: the list is returned, nothing
\* is archived
C37_Witness ==
  /\ ByQuery /\ archive.pc = "done" /\ archive.searched
  /\ Len(archive.beliefs) = 2
  /\ archive.beliefs[1].has /\ archive.beliefs[1].similarity = 90
  /\ archive.reply.action = "candidates"
  /\ Len(archive.calls) = 1

\* C38: every request the inference route has served got exactly one
\* response and its handler completed: 405 for a method other than POST, else
\* 400 or 502 or 200, also for a body that is no JSON.
C38_OneResponsePerRequest ==
  \A i \in DOMAIN http.served :
    LET req == http.served[i] IN
      /\ req.outcome = "ok"
      /\ Len(req.responses) = 1
      /\ req.method # "POST" <=> req.responses = <<405>>
      /\ req.method = "POST" => req.responses[1] \in {400, 502, 200}

==========================================================================
